---- MODULE Spec2Model ----
(***************************************************************************)
(* minienv: loading environment variables into a struct by `env` tags.     *)
(*                                                                         *)
(* Strings are sequences of one-character strings, so that splitting,     *)
(* trimming, prefix tests and tokenizing are computed character by         *)
(* character as the Go code does.  Two revisions of Load are modelled:     *)
(*   "env1"  parseTag / fetchFieldValue / set          (strings.Split tag) *)
(*   "env3"  tag.ParseMinienvTag / getValue / setField (tokenizing parser) *)
(***************************************************************************)
EXTENDS Integers, Sequences, FiniteSets, TLC

VARIABLES
    given,     \* the caller's data from which the tag and the sources were written
    impl,      \* the revision of Load that runs
    environ,   \* the process environment: variable name -> value
    files,     \* the env-files on disk: file name -> [readable, values]
    options,   \* the options of the Load call not yet applied
    args,      \* the caller's maps the options of the call were made with
    config,    \* LoadConfig: [Prefix, Values]
    fields,    \* the struct's fields, in declaration order
    obj,       \* the struct's field values
    written,   \* the positions of the fields Load has set
    idx,       \* handleStruct's loop position (1-based)
    pc,        \* "options", "fields" or "done"
    err,       \* the error Load returns
    last,      \* the locals of the latest handleStruct iteration
    parser     \* the tag parser on its own: [tokens, currentIndex, tag, pc, msg]

loadVars == <<given, impl, environ, files, options, args, config, fields, obj, written, idx, pc, err, last>>

vars == <<given, impl, environ, files, options, args, config, fields, obj, written, idx, pc, err, last, parser>>

(***************************************************************************)
(* Strings                                                                 *)
(***************************************************************************)
Space == " "

\* strings.HasPrefix
HasPrefix(s, p) == Len(p) <= Len(s) /\ SubSeq(s, 1, Len(p)) = p

RECURSIVE TrimLeft(_)
TrimLeft(s) == IF s # <<>> /\ Head(s) = Space THEN TrimLeft(Tail(s)) ELSE s

RECURSIVE TrimRight(_)
TrimRight(s) ==
    IF s # <<>> /\ s[Len(s)] = Space THEN TrimRight(SubSeq(s, 1, Len(s) - 1)) ELSE s

\* strings.TrimSpace (the model's only white space character is the blank)
TrimSpace(s) == TrimRight(TrimLeft(s))

\* strings.Index: position (1-based) of the first occurrence of sep, 0 if none
RECURSIVE IndexFrom(_, _, _)
IndexFrom(s, sep, i) ==
    IF i + Len(sep) - 1 > Len(s) THEN 0
    ELSE IF SubSeq(s, i, i + Len(sep) - 1) = sep THEN i
    ELSE IndexFrom(s, sep, i + 1)

Index(s, sep) == IndexFrom(s, sep, 1)

\* strings.Split with an empty separator: one element per character
Explode(s) == [i \in 1..Len(s) |-> <<s[i]>>]

\* strings.SplitN(s, sep, n) for a non-empty sep and n >= 1
RECURSIVE SplitN(_, _, _)
SplitN(s, sep, n) ==
    LET i == Index(s, sep)
    IN  IF n = 1 \/ i = 0 THEN <<s>>
        ELSE <<SubSeq(s, 1, i - 1)>>
                 \o SplitN(SubSeq(s, i + Len(sep), Len(s)), sep, n - 1)

\* strings.Split(s, sep)
Split(s, sep) == IF sep = <<>> THEN Explode(s) ELSE SplitN(s, sep, Len(s) + 1)

\* strings.Join(parts, "")
RECURSIVE Concat(_)
Concat(parts) == IF parts = <<>> THEN <<>> ELSE Head(parts) \o Concat(Tail(parts))

\* strings.Join(parts, sep)
RECURSIVE Join(_, _)
Join(parts, sep) ==
    IF parts = <<>> THEN <<>>
    ELSE IF Len(parts) = 1 THEN parts[1]
    ELSE parts[1] \o sep \o Join(Tail(parts), sep)

(***************************************************************************)
(* strconv                                                                 *)
(***************************************************************************)
Digits == {"0", "1", "2", "3", "4", "5", "6", "7", "8", "9"}

DigitVal(c) ==
    CASE c = "0" -> 0 [] c = "1" -> 1 [] c = "2" -> 2 [] c = "3" -> 3
      [] c = "4" -> 4 [] c = "5" -> 5 [] c = "6" -> 6 [] c = "7" -> 7
      [] c = "8" -> 8 [] c = "9" -> 9

AllDigits(s) == s # <<>> /\ \A i \in 1..Len(s) : s[i] \in Digits

RECURSIVE DecVal(_)
DecVal(s) == IF s = <<>> THEN 0 ELSE 10 * DecVal(SubSeq(s, 1, Len(s) - 1)) + DigitVal(s[Len(s)])

Signed(s) == s # <<>> /\ Head(s) \in {"+", "-"}

Unsign(s) == IF Signed(s) THEN Tail(s) ELSE s

\* strconv.Atoi: an optional sign and one or more decimal digits
Atoi(s) ==
    IF AllDigits(Unsign(s))
    THEN [ok |-> TRUE, v |-> IF Head(s) = "-" THEN 0 - DecVal(Unsign(s)) ELSE DecVal(Unsign(s))]
    ELSE [ok |-> FALSE, v |-> 0]

BoolTrue == { <<"1">>, <<"t">>, <<"T">>, <<"t", "r", "u", "e">>,
              <<"T", "R", "U", "E">>, <<"T", "r", "u", "e">> }

BoolFalse == { <<"0">>, <<"f">>, <<"F">>, <<"f", "a", "l", "s", "e">>,
               <<"F", "A", "L", "S", "E">>, <<"F", "a", "l", "s", "e">> }

\* strconv.ParseBool
ParseBool(s) ==
    IF s \in BoolTrue THEN [ok |-> TRUE, v |-> TRUE]
    ELSE IF s \in BoolFalse THEN [ok |-> TRUE, v |-> FALSE]
    ELSE [ok |-> FALSE, v |-> FALSE]

RECURSIVE StripZeros(_)
StripZeros(s) ==
    IF s # <<>> /\ s[Len(s)] = "0" THEN StripZeros(SubSeq(s, 1, Len(s) - 1)) ELSE s

\* strconv.ParseFloat(s, 64) on decimal literals without exponent: an optional
\* sign, digits, and optionally a point and digits, with at least one digit.
\* The value is <<m, e>>, standing for m / 10^e with the fraction's trailing
\* zeros dropped.
ParseFloat(s) ==
    LET u    == Unsign(s)
        dot  == Index(u, <<".">>)
        ip   == IF dot = 0 THEN u ELSE SubSeq(u, 1, dot - 1)
        fp   == IF dot = 0 THEN <<>> ELSE SubSeq(u, dot + 1, Len(u))
        good == /\ \A i \in 1..Len(ip) : ip[i] \in Digits
                /\ \A i \in 1..Len(fp) : fp[i] \in Digits
                /\ Len(ip) + Len(fp) > 0
        frac == StripZeros(fp)
        m    == DecVal(ip \o frac)
    IN  IF good
        THEN [ok |-> TRUE, v |-> <<IF Signed(s) /\ Head(s) = "-" THEN 0 - m ELSE m, Len(frac)>>]
        ELSE [ok |-> FALSE, v |-> <<0, 0>>]

(***************************************************************************)
(* internal/tag: the tokenizing tag parser (parser.go)                     *)
(***************************************************************************)
Comma == <<",">>

Equals == <<"=">>

Open == <<"[">>

Close == <<"]">>

DelimChars == {",", "=", "[", "]"}

kOptional == <<"o", "p", "t", "i", "o", "n", "a", "l">>

kDefault == <<"d", "e", "f", "a", "u", "l", "t">>

kSplit == <<"s", "p", "l", "i", "t">>

\* tokenize emitting every pending token, a blank one as the empty token
RECURSIVE TokenizeFrom_KeepsBlank(_, _, _, _)
TokenizeFrom_KeepsBlank(tag, i, token, tokens) ==
    LET trimmed == TrimSpace(token)
    IN  IF i > Len(tag)
        THEN IF token # <<>> THEN Append(tokens, trimmed) ELSE tokens
        ELSE IF tag[i] \in DelimChars
        THEN IF token # <<>>
             THEN TokenizeFrom_KeepsBlank(tag, i + 1, <<>>, tokens \o <<trimmed, <<tag[i]>>>>)
             ELSE TokenizeFrom_KeepsBlank(tag, i + 1, token, Append(tokens, <<tag[i]>>))
        ELSE TokenizeFrom_KeepsBlank(tag, i + 1, Append(token, tag[i]), tokens)

\* tokenize emitting the pending token as written, without strings.TrimSpace
RECURSIVE TokenizeFrom_Untrimmed(_, _, _, _)
TokenizeFrom_Untrimmed(tag, i, token, tokens) ==
    IF i > Len(tag)
    THEN IF token # <<>> THEN Append(tokens, token) ELSE tokens
    ELSE IF tag[i] \in DelimChars
    THEN IF token # <<>>
         THEN TokenizeFrom_Untrimmed(tag, i + 1, <<>>, tokens \o <<token, <<tag[i]>>>>)
         ELSE TokenizeFrom_Untrimmed(tag, i + 1, token, Append(tokens, <<tag[i]>>))
    ELSE TokenizeFrom_Untrimmed(tag, i + 1, Append(token, tag[i]), tokens)

\* tokenize: the loop over the characters of the tag, with the locals token
\* and tokens; the pending token is reset only when it was emitted.
RECURSIVE TokenizeFrom(_, _, _, _)
TokenizeFrom(tag, i, token, tokens) ==
    LET trimmed == TrimSpace(token)
    IN  IF i > Len(tag)
        THEN IF trimmed # <<>> THEN Append(tokens, trimmed) ELSE tokens
        ELSE IF tag[i] \in DelimChars
        THEN IF trimmed # <<>>
             THEN TokenizeFrom(tag, i + 1, <<>>, tokens \o <<trimmed, <<tag[i]>>>>)
             ELSE TokenizeFrom(tag, i + 1, token, Append(tokens, <<tag[i]>>))
        ELSE TokenizeFrom(tag, i + 1, Append(token, tag[i]), tokens)

tokenize(tag) == TokenizeFrom(tag, 1, <<>>, <<>>)

\* parser.currentToken: the token at the (0-based) cursor, "" at the end
currentToken(tokens, ci) == IF ci >= Len(tokens) THEN <<>> ELSE tokens[ci + 1]

\* parser.peek: the token after the cursor, "" at the end
peek(tokens, ci) == IF ci + 1 >= Len(tokens) THEN <<>> ELSE tokens[ci + 2]

ParseOk(val, ci) == [ok |-> TRUE, val |-> val, ci |-> ci, msg |-> "", arg |-> <<>>]

ParseErr(msg, arg, ci) == [ok |-> FALSE, val |-> <<>>, ci |-> ci, msg |-> msg, arg |-> arg]

\* parseSplitOption taking a "," after "=" as the end of the option
parseSplitOption_CommaEnds(tokens, ci) ==
    IF currentToken(tokens, ci + 1) # Equals
    THEN ParseErr("split tag is missing = sign", <<>>, ci + 1)
    ELSE IF currentToken(tokens, ci + 2) = <<>> \/ currentToken(tokens, ci + 2) = Comma
    THEN ParseErr("missing split token", <<>>, ci + 2)
    ELSE IF peek(tokens, ci + 2) # <<>> /\ peek(tokens, ci + 2) # Comma
    THEN ParseErr("invalid number of tokens in split tag", <<>>, ci + 2)
    ELSE ParseOk(currentToken(tokens, ci + 2), ci + 2)

\* parseSplitOption accepting the delimiter only as the last token of the tag
parseSplitOption_EndOnly(tokens, ci) ==
    IF currentToken(tokens, ci + 1) # Equals
    THEN ParseErr("split tag is missing = sign", <<>>, ci + 1)
    ELSE IF peek(tokens, ci + 2) # <<>>
    THEN ParseErr("invalid number of tokens in split tag", <<>>, ci + 2)
    ELSE IF currentToken(tokens, ci + 2) = <<>>
    THEN ParseErr("missing split token", <<>>, ci + 2)
    ELSE ParseOk(currentToken(tokens, ci + 2), ci + 2)

\* parser.parseSplitOption, entered with the cursor on the "split" token
parseSplitOption(tokens, ci) ==
    IF currentToken(tokens, ci + 1) # Equals
    THEN ParseErr("split tag is missing = sign", <<>>, ci + 1)
    ELSE IF peek(tokens, ci + 2) # <<>> /\ peek(tokens, ci + 2) # Comma
    THEN ParseErr("invalid number of tokens in split tag", <<>>, ci + 2)
    ELSE IF currentToken(tokens, ci + 2) = <<>>
    THEN ParseErr("missing split token", <<>>, ci + 2)
    ELSE ParseOk(currentToken(tokens, ci + 2), ci + 2)

\* the for loop of parseDefaultOption: the first position at or after ci that
\* holds "]", or Len(tokens) when the tokens run out
RECURSIVE SeekClose(_, _)
SeekClose(tokens, ci) ==
    IF ci >= Len(tokens) THEN ci
    ELSE IF currentToken(tokens, ci) = Close THEN ci
    ELSE SeekClose(tokens, ci + 1)

\* parseDefaultOption taking the tokens up to the end of the tag as the value
\* of a bracketed default that is not closed
parseDefaultOption_Unclosed(tokens, ci) ==
    LET start == currentToken(tokens, ci + 2)
        stop  == SeekClose(tokens, ci + 2)
    IN  IF currentToken(tokens, ci + 1) # Equals
        THEN ParseErr("default tag is missing = sign", <<>>, ci + 1)
        ELSE IF start = <<>> \/ start = Comma
        THEN ParseErr("invalid default token", start, ci + 2)
        ELSE IF start = Open
        THEN ParseOk(Concat(SubSeq(tokens, ci + 4, stop)), stop)
        ELSE ParseOk(start, ci + 2)

\* parseDefaultOption keeping the brackets of a bracketed default in the value
parseDefaultOption_KeepBrackets(tokens, ci) ==
    LET start == currentToken(tokens, ci + 2)
        stop  == SeekClose(tokens, ci + 2)
    IN  IF currentToken(tokens, ci + 1) # Equals
        THEN ParseErr("default tag is missing = sign", <<>>, ci + 1)
        ELSE IF start = <<>> \/ start = Comma
        THEN ParseErr("invalid default token", start, ci + 2)
        ELSE IF start = Open
        THEN IF stop >= Len(tokens)
             THEN ParseErr("missing closing ] in default tag", <<>>, stop)
             ELSE ParseOk(Concat(SubSeq(tokens, ci + 3, stop + 1)), stop)
        ELSE ParseOk(start, ci + 2)

\* parser.parseDefaultOption, entered with the cursor on the "default" token
parseDefaultOption(tokens, ci) ==
    LET start == currentToken(tokens, ci + 2)
        stop  == SeekClose(tokens, ci + 2)
    IN  IF currentToken(tokens, ci + 1) # Equals
        THEN ParseErr("default tag is missing = sign", <<>>, ci + 1)
        ELSE IF start = <<>> \/ start = Comma
        THEN ParseErr("invalid default token", start, ci + 2)
        ELSE IF start = Open
        THEN IF stop >= Len(tokens)
             THEN ParseErr("missing closing ] in default tag", <<>>, stop)
             ELSE ParseOk(Concat(SubSeq(tokens, ci + 4, stop)), stop)
        ELSE ParseOk(start, ci + 2)

\* MinienvTag{}
ZeroTag == [LookupName |-> <<>>, Optional |-> FALSE, Default |-> <<>>, SplitOn |-> <<>>]

TagOk(tag) == [ok |-> TRUE, tag |-> tag, msg |-> "", arg |-> <<>>]

TagErr(msg, arg) == [ok |-> FALSE, tag |-> ZeroTag, msg |-> msg, arg |-> arg]

\* parser.Parse skipping every token it does not recognize
RECURSIVE ParseFrom_SkipsUnknown(_, _, _)
ParseFrom_SkipsUnknown(tokens, ci, tag) ==
    LET token == currentToken(tokens, ci)
        sp    == parseSplitOption(tokens, ci)
        df    == parseDefaultOption(tokens, ci)
    IN  IF ci >= Len(tokens) THEN TagOk(tag)
        ELSE IF ci = 0 THEN ParseFrom_SkipsUnknown(tokens, 1, [tag EXCEPT !.LookupName = token])
        ELSE IF token = kOptional
        THEN ParseFrom_SkipsUnknown(tokens, ci + 1, [tag EXCEPT !.Optional = TRUE])
        ELSE IF token = kSplit
        THEN IF sp.ok THEN ParseFrom_SkipsUnknown(tokens, sp.ci + 1, [tag EXCEPT !.SplitOn = sp.val])
             ELSE TagErr(sp.msg, sp.arg)
        ELSE IF token = kDefault
        THEN IF df.ok THEN ParseFrom_SkipsUnknown(tokens, df.ci + 1, [tag EXCEPT !.Default = df.val])
             ELSE TagErr(df.msg, df.arg)
        ELSE ParseFrom_SkipsUnknown(tokens, ci + 1, tag)

\* parser.Parse keeping the first value of a repeated split or default option
RECURSIVE ParseFrom_FirstWins(_, _, _)
ParseFrom_FirstWins(tokens, ci, tag) ==
    LET token == currentToken(tokens, ci)
        sp    == parseSplitOption(tokens, ci)
        df    == parseDefaultOption(tokens, ci)
    IN  IF ci >= Len(tokens) THEN TagOk(tag)
        ELSE IF ci = 0 THEN ParseFrom_FirstWins(tokens, 1, [tag EXCEPT !.LookupName = token])
        ELSE IF token = kOptional
        THEN ParseFrom_FirstWins(tokens, ci + 1, [tag EXCEPT !.Optional = TRUE])
        ELSE IF token = kSplit
        THEN IF sp.ok
             THEN ParseFrom_FirstWins(tokens, sp.ci + 1,
                      IF tag.SplitOn = <<>> THEN [tag EXCEPT !.SplitOn = sp.val] ELSE tag)
             ELSE TagErr(sp.msg, sp.arg)
        ELSE IF token = kDefault
        THEN IF df.ok
             THEN ParseFrom_FirstWins(tokens, df.ci + 1,
                      IF tag.Default = <<>> THEN [tag EXCEPT !.Default = df.val] ELSE tag)
             ELSE TagErr(df.msg, df.arg)
        ELSE IF token = Comma THEN ParseFrom_FirstWins(tokens, ci + 1, tag)
        ELSE TagErr("invalid token in tag", token)

\* parser.Parse: the loop over the tokens from cursor ci with the tag so far
RECURSIVE ParseFrom(_, _, _)
ParseFrom(tokens, ci, tag) ==
    LET token == currentToken(tokens, ci)
        sp    == parseSplitOption(tokens, ci)
        df    == parseDefaultOption(tokens, ci)
    IN  IF ci >= Len(tokens) THEN TagOk(tag)
        ELSE IF ci = 0 THEN ParseFrom(tokens, 1, [tag EXCEPT !.LookupName = token])
        ELSE IF token = kOptional
        THEN ParseFrom(tokens, ci + 1, [tag EXCEPT !.Optional = TRUE])
        ELSE IF token = kSplit
        THEN IF sp.ok THEN ParseFrom(tokens, sp.ci + 1, [tag EXCEPT !.SplitOn = sp.val])
             ELSE TagErr(sp.msg, sp.arg)
        ELSE IF token = kDefault
        THEN IF df.ok THEN ParseFrom(tokens, df.ci + 1, [tag EXCEPT !.Default = df.val])
             ELSE TagErr(df.msg, df.arg)
        ELSE IF token = Comma THEN ParseFrom(tokens, ci + 1, tag)
        ELSE TagErr("invalid token in tag", token)

\* tag.ParseMinienvTag
ParseMinienvTag(tagStr) ==
    IF Len(tokenize(tagStr)) = 0 THEN TagErr("tag is empty", <<>>)
    ELSE ParseFrom(tokenize(tagStr), 0, ZeroTag)

(***************************************************************************)
(* parseTag of the strings.Split revision of env.go                        *)
(***************************************************************************)
\* the loop of parseTag over tagParts[i..], with the tag t so far; the tag
\* has no SplitOn field in this revision (it stays empty and is never read)
RECURSIVE ParseParts(_, _, _)
ParseParts(tagParts, i, t) ==
    LET part     == TrimSpace(tagParts[i])
        optParts == SplitN(part, Equals, 2)
    IN  IF i > Len(tagParts) THEN TagOk(t)
        ELSE IF i = 1 THEN ParseParts(tagParts, 2, [t EXCEPT !.LookupName = part])
        ELSE IF optParts[1] = kOptional
        THEN ParseParts(tagParts, i + 1, [t EXCEPT !.Optional = TRUE])
        ELSE IF optParts[1] = kDefault
        THEN IF Len(optParts) < 2 THEN TagErr("default env value cannot be empty", <<>>)
             ELSE ParseParts(tagParts, i + 1, [t EXCEPT !.Default = TrimSpace(optParts[2])])
        ELSE TagErr("unknown tag option", optParts[1])

parseTag(tagStr) ==
    IF tagStr = <<>> THEN TagErr("tag string cannot be empty", <<>>)
    ELSE ParseParts(Split(tagStr, Comma), 1, ZeroTag)

(***************************************************************************)
(* Maps (map[string]string) are functions whose domain is the key set      *)
(***************************************************************************)
EmptyMap == [k \in {} |-> <<>>]

\* maps.Copy(dst, src)
MapsCopy_KeepsExisting(dst, src) ==
    [k \in DOMAIN dst \cup DOMAIN src |-> IF k \in DOMAIN dst THEN dst[k] ELSE src[k]]

\* maps.Copy(dst, src): the entries of src are written over those of dst
MapsCopy(dst, src) ==
    [k \in DOMAIN dst \cup DOMAIN src |-> IF k \in DOMAIN src THEN src[k] ELSE dst[k]]

\* the option's closure with the arguments of maps.Copy exchanged: the
\* configuration's entries are written into the caller's map
FallbackCopy_Swapped(cv, values) == [Values |-> cv, values |-> MapsCopy(values, cv)]

\* the closure WithFallbackValues returns, run on the configuration's map cv
\* and the caller's map: maps.Copy(c.Values, values) writes the first and
\* only reads the second
FallbackCopy(cv, values) == [Values |-> MapsCopy(cv, values), values |-> values]

(***************************************************************************)
(* Options (options.go)                                                    *)
(***************************************************************************)
WithPrefix(prefix) ==
    [op |-> "WithPrefix", prefix |-> prefix, values |-> EmptyMap,
     required |-> FALSE, files |-> <<>>]

WithFallbackValues(values) ==
    [op |-> "WithFallbackValues", prefix |-> <<>>, values |-> values,
     required |-> FALSE, files |-> <<>>]

WithFile(required, names) ==
    [op |-> "WithFile", prefix |-> <<>>, values |-> EmptyMap,
     required |-> required, files |-> names]

\* the result of parseEnvFile on the file of that name: its key/value lines,
\* or an error when the file cannot be opened
parseEnvFile(fs, name) ==
    IF name \in DOMAIN fs /\ fs[name].readable
    THEN [ok |-> TRUE, values |-> fs[name].values]
    ELSE [ok |-> FALSE, values |-> EmptyMap]

\* the loop of readEnvFiles skipping every file that cannot be read
RECURSIVE ReadFilesFrom_AlwaysSkip(_, _, _, _, _)
ReadFilesFrom_AlwaysSkip(fs, shouldRaiseError, names, i, values) ==
    LET envs == parseEnvFile(fs, names[i])
    IN  IF i > Len(names) THEN [ok |-> TRUE, values |-> values]
        ELSE IF ~envs.ok
        THEN ReadFilesFrom_AlwaysSkip(fs, shouldRaiseError, names, i + 1, values)
        ELSE ReadFilesFrom_AlwaysSkip(fs, shouldRaiseError, names, i + 1,
                                      MapsCopy(values, envs.values))

\* the loop of readEnvFiles keeping, for a key read before, the earlier value
RECURSIVE ReadFilesFrom_KeepFirst(_, _, _, _, _)
ReadFilesFrom_KeepFirst(fs, shouldRaiseError, names, i, values) ==
    LET envs == parseEnvFile(fs, names[i])
    IN  IF i > Len(names) THEN [ok |-> TRUE, values |-> values]
        ELSE IF ~envs.ok
        THEN IF shouldRaiseError THEN [ok |-> FALSE, values |-> EmptyMap]
             ELSE ReadFilesFrom_KeepFirst(fs, shouldRaiseError, names, i + 1, values)
        ELSE ReadFilesFrom_KeepFirst(fs, shouldRaiseError, names, i + 1,
                                     MapsCopy(envs.values, values))

\* the loop of readEnvFiles over files[i..], with the values merged so far
RECURSIVE ReadFilesFrom(_, _, _, _, _)
ReadFilesFrom(fs, shouldRaiseError, names, i, values) ==
    LET envs == parseEnvFile(fs, names[i])
    IN  IF i > Len(names) THEN [ok |-> TRUE, values |-> values]
        ELSE IF ~envs.ok
        THEN IF shouldRaiseError THEN [ok |-> FALSE, values |-> EmptyMap]
             ELSE ReadFilesFrom(fs, shouldRaiseError, names, i + 1, values)
        ELSE ReadFilesFrom(fs, shouldRaiseError, names, i + 1, MapsCopy(values, envs.values))

readEnvFiles(fs, shouldRaiseError, names) ==
    ReadFilesFrom(fs, shouldRaiseError,
                  IF Len(names) = 0 THEN <<".env">> ELSE names, 1, EmptyMap)

(***************************************************************************)
(* Errors                                                                  *)
(***************************************************************************)
NoErr == [kind |-> "nil", Field |-> "", stage |-> "", msg |-> "", key |-> <<>>, index |-> -1]

\* FieldError{Field, Err} (LoadError in the tokenizing revision); Err is kept
\* as the stage that failed, its message, and the lookup key or element index
\* the message carries
FieldError(field, stage, msg, key, index) ==
    [kind |-> "FieldError", Field |-> field, stage |-> stage, msg |-> msg,
     key |-> key, index |-> index]

FileError == [kind |-> "FileError", Field |-> "", stage |-> "option", msg |-> "open",
              key |-> <<>>, index |-> -1]

(***************************************************************************)
(* Value resolution                                                        *)
(***************************************************************************)
\* EffectiveKey with the prefix prepended even to a key that carries it
EffectiveKey_AlwaysPrefixed(prefix, lookup) ==
    IF prefix # <<>> THEN prefix \o lookup ELSE lookup

\* the lookup key of getValue / fetchFieldValue
EffectiveKey(prefix, lookup) ==
    IF prefix # <<>> /\ ~HasPrefix(lookup, prefix) THEN prefix \o lookup ELSE lookup

\* getValue with the fallback map consulted before the environment
getValue_FallbackFirst(cfg, tag, env) ==
    LET lookup         == EffectiveKey(cfg.Prefix, tag.LookupName)
        envExists      == lookup \in DOMAIN env
        fallbackExists == lookup \in DOMAIN cfg.Values
    IN  IF ~envExists /\ ~fallbackExists /\ ~tag.Optional /\ tag.Default = <<>>
        THEN [ok |-> FALSE, val |-> <<>>, lookup |-> lookup]
        ELSE [ok |-> TRUE, lookup |-> lookup,
              val |-> IF fallbackExists THEN cfg.Values[lookup]
                      ELSE IF envExists THEN env[lookup]
                      ELSE tag.Default]

\* getValue (tokenizing revision): os.LookupEnv is the lookup in env
getValue(cfg, tag, env) ==
    LET lookup         == EffectiveKey(cfg.Prefix, tag.LookupName)
        envExists      == lookup \in DOMAIN env
        fallbackExists == lookup \in DOMAIN cfg.Values
    IN  IF ~envExists /\ ~fallbackExists /\ ~tag.Optional /\ tag.Default = <<>>
        THEN [ok |-> FALSE, val |-> <<>>, lookup |-> lookup]
        ELSE [ok |-> TRUE, lookup |-> lookup,
              val |-> IF envExists THEN env[lookup]
                      ELSE IF fallbackExists THEN cfg.Values[lookup]
                      ELSE tag.Default]

\* fetchFieldValue without the guard for a required field that has no value
fetchFieldValue_NoGuard(cfg, tag, env) ==
    LET lookup         == EffectiveKey(cfg.Prefix, tag.LookupName)
        envExists      == lookup \in DOMAIN env
        fallbackExists == lookup \in DOMAIN cfg.Values
    IN  [ok |-> TRUE, lookup |-> lookup,
         val |-> IF envExists THEN env[lookup]
                 ELSE IF fallbackExists THEN cfg.Values[lookup]
                 ELSE tag.Default]

\* fetchFieldValue (strings.Split revision)
fetchFieldValue(cfg, tag, env) ==
    LET lookup         == EffectiveKey(cfg.Prefix, tag.LookupName)
        envExists      == lookup \in DOMAIN env
        fallbackExists == lookup \in DOMAIN cfg.Values
    IN  IF ~envExists /\ ~fallbackExists /\ ~tag.Optional /\ tag.Default = <<>>
        THEN [ok |-> FALSE, val |-> <<>>, lookup |-> lookup]
        ELSE [ok |-> TRUE, lookup |-> lookup,
              val |-> IF envExists THEN env[lookup]
                      ELSE IF fallbackExists THEN cfg.Values[lookup]
                      ELSE tag.Default]

(***************************************************************************)
(* Type coercion                                                           *)
(***************************************************************************)
ScalarKinds == {"string", "int", "float", "bool"}

\* a field type: its reflect.Kind, for a slice the kind of its elements, for
\* a map the kinds of its keys and of its values
Scalar(kind) == [kind |-> kind, elem |-> "", key |-> ""]

SliceOf(elem) == [kind |-> "slice", elem |-> elem, key |-> ""]

MapOf(key, elem) == [kind |-> "map", elem |-> elem, key |-> key]

\* the zero value of a kind: "", 0, 0.0, false, a nil map, a nil slice
ZeroKind(kind) ==
    CASE kind = "string" -> <<>>
      [] kind \in {"int", "int8", "int16"} -> 0
      [] kind = "float"  -> <<0, 0>>
      [] kind = "bool"   -> FALSE
      [] kind = "map"    -> EmptyMap
      [] OTHER           -> <<>>

SetOk(v) == [ok |-> TRUE, v |-> v, msg |-> "", index |-> -1]

SetErr(msg, index) == [ok |-> FALSE, v |-> <<>>, msg |-> msg, index |-> index]

\* the bits of the sized integer kinds that are modelled
IntBits(kind) == CASE kind = "int8" -> 8 [] kind = "int16" -> 16

\* reflect.Value.SetInt on a field of the given bits: the conversion
\* intN(x) keeps the low bits of x in two's complement
SetInt(bits, x) == ((x + 2^(bits - 1)) % 2^bits) - 2^(bits - 1)

\* the scalar cases of set / setField and convertPrimitiveValue
ConvertScalar(kind, val) ==
    CASE kind = "string" -> SetOk(val)
      [] kind = "int"    -> IF Atoi(val).ok THEN SetOk(Atoi(val).v)
                            ELSE SetErr("strconv.Atoi", -1)
      [] kind \in {"int8", "int16"} ->
                            IF Atoi(val).ok THEN SetOk(SetInt(IntBits(kind), Atoi(val).v))
                            ELSE SetErr("strconv.Atoi", -1)
      [] kind = "bool"   -> IF ParseBool(val).ok THEN SetOk(ParseBool(val).v)
                            ELSE SetErr("strconv.ParseBool", -1)
      [] kind = "float"  -> IF ParseFloat(val).ok THEN SetOk(ParseFloat(val).v)
                            ELSE SetErr("strconv.ParseFloat", -1)
      [] OTHER           -> SetErr("unsupported type", -1)

\* the positions of vals whose conversion to kind fails
Failing(kind, vals) == {i \in 1..Len(vals) : ~ConvertScalar(kind, vals[i]).ok}

Min(S) == CHOOSE x \in S : \A y \in S : x <= y

\* the element loop of the slice case: the converted slice, or the error of
\* the first element that fails, with its 0-based index
ConvertSlice(elem, vals) ==
    IF Failing(elem, vals) = {}
    THEN SetOk([i \in 1..Len(vals) |-> ConvertScalar(elem, vals[i]).v])
    ELSE SetErr(ConvertScalar(elem, vals[Min(Failing(elem, vals))]).msg,
                Min(Failing(elem, vals)) - 1)

Pipe == <<"|">>

\* set (strings.Split revision): slices are split on "|"
set(type, val) ==
    IF type.kind = "slice" THEN ConvertSlice(type.elem, Split(val, Pipe))
    ELSE ConvertScalar(type.kind, val)

Colon == <<":">>

\* the entry loop of the map case over entries[i..], with the map m so far:
\* an entry is split once on the first ":", an entry without ":" is an
\* error, key and value are converted as scalars, and an entry whose key is
\* already in the map keeps the earlier value
RECURSIVE MapEntries_FirstWins(_, _, _, _)
MapEntries_FirstWins(type, entries, i, m) ==
    LET kv == SplitN(entries[i], Colon, 2)
        k  == ConvertScalar(type.key, kv[1])
        v  == ConvertScalar(type.elem, kv[2])
    IN  IF i > Len(entries) THEN SetOk(m)
        ELSE IF Len(kv) < 2 THEN SetErr("map value must be in the format key:value", i - 1)
        ELSE IF ~k.ok THEN SetErr("failed to set map key", i - 1)
        ELSE IF ~v.ok THEN SetErr("failed to set map value for key", i - 1)
        ELSE MapEntries_FirstWins(type, entries, i + 1,
                 [x \in DOMAIN m \cup {k.v} |-> IF x \in DOMAIN m THEN m[x] ELSE v.v])

\* the entry loop of the map case over entries[i..], with the map m so far:
\* an entry is split once on the first ":", an entry without ":" is an
\* error, key and value are converted as scalars, and a later entry
\* overwrites an earlier one with the same key
RECURSIVE MapEntries(_, _, _, _)
MapEntries(type, entries, i, m) ==
    LET kv == SplitN(entries[i], Colon, 2)
        k  == ConvertScalar(type.key, kv[1])
        v  == ConvertScalar(type.elem, kv[2])
    IN  IF i > Len(entries) THEN SetOk(m)
        ELSE IF Len(kv) < 2 THEN SetErr("map value must be in the format key:value", i - 1)
        ELSE IF ~k.ok THEN SetErr("failed to set map key", i - 1)
        ELSE IF ~v.ok THEN SetErr("failed to set map value for key", i - 1)
        ELSE MapEntries(type, entries, i + 1,
                 [x \in DOMAIN m \cup {k.v} |-> IF x = k.v THEN v.v ELSE m[x]])

\* set of the revision with maps: a map is split into entries on "|"
setWithMap(type, val) ==
    IF type.kind = "map" THEN MapEntries(type, Split(val, Pipe), 1, EmptyMap)
    ELSE set(type, val)

\* setField splitting on "|" whatever the tag's split option
setField_PipeOnly(type, val, tag) ==
    IF type.kind = "slice"
    THEN [ConvertSlice(type.elem, Split(val, Pipe)) EXCEPT !.index = -1]
    ELSE ConvertScalar(type.kind, val)

\* setField (tokenizing revision): slices are split on tag.SplitOn; the
\* element error is returned without its index
setField(type, val, tag) ==
    IF type.kind = "slice"
    THEN [ConvertSlice(type.elem, Split(val, tag.SplitOn)) EXCEPT !.index = -1]
    ELSE ConvertScalar(type.kind, val)

(***************************************************************************)
(* Load                                                                    *)
(***************************************************************************)
Impls == {"env1", "env3"}

NoLast ==
    [field |-> 0, parsed |-> FALSE, tag |-> ZeroTag, fetched |-> FALSE,
     lookup |-> <<>>, raw |-> <<>>, stored |-> FALSE, tokens |-> <<>>]

\* a struct field: its name, whether it has an `env` tag, the tag, its type
Field(name, tag, type) == [name |-> name, hasTag |-> TRUE, tag |-> tag, type |-> type]

\* a field without tag handled as if it were tagged with the key K
Untagged_AsTagged(name, type) == [name |-> name, hasTag |-> TRUE, tag |-> <<"K">>, type |-> type]

Untagged(name, type) == [name |-> name, hasTag |-> FALSE, tag |-> <<>>, type |-> type]

\* the caller's data of a call that loads no list: no elements, no delimiter
NoList == [mode |-> "scalar", c |-> <<>>, e |-> <<>>, kind |-> "", key |-> ""]

\* no parser is run on its own
NoParser == [tokens |-> <<>>, currentIndex |-> 0, tag |-> ZeroTag, pc |-> "idle", msg |-> ""]

\* Load is called with a pointer to a zero struct (var s S) and the options
InitFrom(g, im, env, fs, opts, flds) ==
    /\ given = g
    /\ impl = im
    /\ environ = env
    /\ files = fs
    /\ options = opts
    /\ args = [i \in 1..Len(opts) |-> opts[i].values]
    /\ config = [Prefix |-> <<>>, Values |-> EmptyMap]
    /\ fields = flds
    /\ obj = [i \in 1..Len(flds) |-> ZeroKind(flds[i].type.kind)]
    /\ written = {}
    /\ idx = 1
    /\ pc = "options"
    /\ err = NoErr
    /\ last = NoLast
    /\ parser = NoParser

\* Load called on an object whose fields hold the values before
InitObject(g, im, env, fs, opts, flds, before) ==
    /\ given = g
    /\ impl = im
    /\ environ = env
    /\ files = fs
    /\ options = opts
    /\ args = [i \in 1..Len(opts) |-> opts[i].values]
    /\ config = [Prefix |-> <<>>, Values |-> EmptyMap]
    /\ fields = flds
    /\ obj = before
    /\ written = {}
    /\ idx = 1
    /\ pc = "options"
    /\ err = NoErr
    /\ last = NoLast
    /\ parser = NoParser

\* a field of struct kind with its own fields
StructField(name, sub) ==
    [name |-> name, hasTag |-> FALSE, tag |-> <<>>,
     type |-> [kind |-> "struct", elem |-> "", key |-> ""], sub |-> sub]

\* the order in which handleStruct reaches the fields that are no structs,
\* with the fields of a nested struct after those of the struct around it
RECURSIVE Leaves_OuterFirst(_)
Leaves_OuterFirst(flds) ==
    IF flds = <<>> THEN <<>>
    ELSE IF Head(flds).type.kind = "struct"
    THEN Leaves_OuterFirst(Tail(flds)) \o Leaves_OuterFirst(Head(flds).sub)
    ELSE <<Head(flds)>> \o Leaves_OuterFirst(Tail(flds))

\* the order in which handleStruct reaches the fields that are no structs: a
\* field of struct kind is descended into where it stands, tagged or not
RECURSIVE Leaves(_)
Leaves(flds) ==
    IF flds = <<>> THEN <<>>
    ELSE IF Head(flds).type.kind = "struct"
    THEN Leaves(Head(flds).sub) \o Leaves(Tail(flds))
    ELSE <<Head(flds)>> \o Leaves(Tail(flds))

\* one iteration of Load's loop over the options: option(&config)
ApplyOption ==
    /\ pc = "options"
    /\ options # <<>>
    /\ LET o    == Head(options)
           k    == Len(args) - Len(options) + 1
           copy == FallbackCopy(config.Values, args[k])
           read == readEnvFiles(files, o.required, o.files)
       IN  CASE o.op = "WithPrefix" ->
                  /\ config' = [config EXCEPT !.Prefix = o.prefix]
                  /\ options' = Tail(options)
                  /\ UNCHANGED <<args, pc, err>>
             [] o.op = "WithFallbackValues" ->
                  /\ config' = [config EXCEPT !.Values = copy.Values]
                  /\ args' = [args EXCEPT ![k] = copy.values]
                  /\ options' = Tail(options)
                  /\ UNCHANGED <<pc, err>>
             [] o.op = "WithFile" ->
                  IF read.ok
                  THEN /\ config' = [config EXCEPT !.Values = MapsCopy(config.Values, read.values)]
                       /\ options' = Tail(options)
                       /\ UNCHANGED <<args, pc, err>>
                  ELSE /\ err' = FileError
                       /\ pc' = "done"
                       /\ UNCHANGED <<args, config, options>>
    /\ UNCHANGED <<given, impl, environ, files, fields, obj, written, idx, last, parser>>

\* the options are applied: Load checks its input and calls handleStruct
StartStruct ==
    /\ pc = "options"
    /\ options = <<>>
    /\ pc' = "fields"
    /\ UNCHANGED <<given, impl, environ, files, options, args, config, fields, obj, written, idx, err, last, parser>>

\* the tag parser of the running revision
ParseTagOf(im, tagStr) == IF im = "env3" THEN ParseMinienvTag(tagStr) ELSE parseTag(tagStr)

\* the value resolution of the running revision
FetchOf(im, cfg, tag, env) ==
    IF im = "env3" THEN getValue(cfg, tag, env) ELSE fetchFieldValue(cfg, tag, env)

\* the coercion of the running revision
SetOf(im, type, val, tag) ==
    CASE im = "env3" -> setField(type, val, tag)
      [] im = "env1" -> set(type, val)
      [] OTHER       -> setWithMap(type, val)

\* the tokens ParseMinienvTag's parser is built with (the tokenizing revision)
TokensOf(im, f) == IF im = "env3" /\ f.hasTag THEN tokenize(f.tag) ELSE <<>>

\* one iteration of handleStruct's loop: a field without tag is skipped; a
\* tagged field is parsed, resolved and set, and the first failure returns
HandleField ==
    /\ pc = "fields"
    /\ idx <= Len(fields)
    /\ LET f   == fields[idx]
           p   == ParseTagOf(impl, f.tag)
           g   == FetchOf(impl, config, p.tag, environ)
           c   == SetOf(impl, f.type, g.val, p.tag)
           loc == [NoLast EXCEPT !.field = idx, !.tokens = TokensOf(impl, f)]
       IN  IF ~f.hasTag
           THEN /\ idx' = idx + 1
                /\ last' = loc
                /\ UNCHANGED <<obj, written, pc, err>>
           ELSE IF ~p.ok
           THEN /\ err' = FieldError(f.name, "parse", p.msg, p.arg, -1)
                /\ pc' = "done"
                /\ last' = loc
                /\ UNCHANGED <<obj, written, idx>>
           ELSE IF ~g.ok
           THEN /\ err' = FieldError(f.name, "fetch", "no value was found", g.lookup, -1)
                /\ pc' = "done"
                /\ last' = [loc EXCEPT !.parsed = TRUE, !.tag = p.tag, !.lookup = g.lookup]
                /\ UNCHANGED <<obj, written, idx>>
           ELSE IF ~c.ok
           THEN /\ err' = FieldError(f.name, "set", c.msg, <<>>, c.index)
                /\ pc' = "done"
                /\ last' = [loc EXCEPT !.parsed = TRUE, !.tag = p.tag, !.lookup = g.lookup,
                                       !.fetched = TRUE, !.raw = g.val]
                /\ UNCHANGED <<obj, written, idx>>
           ELSE /\ obj' = [obj EXCEPT ![idx] = c.v]
                /\ written' = written \cup {idx}
                /\ idx' = idx + 1
                /\ last' = [loc EXCEPT !.parsed = TRUE, !.tag = p.tag, !.lookup = g.lookup,
                                       !.fetched = TRUE, !.raw = g.val, !.stored = TRUE]
                /\ UNCHANGED <<pc, err>>
    /\ UNCHANGED <<given, impl, environ, files, options, args, config, fields, parser>>

\* handleStruct's loop is over: Load returns nil
Return ==
    /\ pc = "fields"
    /\ idx > Len(fields)
    /\ pc' = "done"
    /\ UNCHANGED <<given, impl, environ, files, options, args, config, fields, obj, written, idx, err, last, parser>>

Next == ApplyOption \/ StartStruct \/ HandleField \/ Return

(***************************************************************************)
(* Inputs                                                                  *)
(***************************************************************************)
\* the maps with keys among Keys and values in Vals
PartialMaps(Keys, Vals) == UNION {[D -> Vals] : D \in SUBSET Keys}

K == <<"K">>

P == <<"P", "_">>

PK == P \o K

\* the tag string "lookup[,optional][,default=def]"; def = "" adds no default
BuildTag(lookup, optional, def) ==
    lookup \o (IF optional THEN Comma \o kOptional ELSE <<>>)
           \o (IF def # <<>> THEN Comma \o kDefault \o Equals \o def ELSE <<>>)

EnvFile == "a.env"

\* the fallback map m is passed to WithFallbackValues or read from an env-file
SourceOptions(m) == {<<WithFallbackValues(m)>>, <<WithFile(FALSE, <<EnvFile>>)>>}

Disk(m) == [n \in {EnvFile} |-> [readable |-> TRUE, values |-> m]]

PrefixOptions == {<<>>, <<WithPrefix(P)>>}

\* Resolution of one scalar field: every content of the environment and of
\* the fallback map over the keys K and P_K, with and without the prefix P_
Init ==
    \E im \in Impls, env \in PartialMaps({K, PK}, {<<>>, <<"7">>}),
       m \in PartialMaps({K, PK}, {<<"5">>}), po \in PrefixOptions,
       lookup \in {K, PK}, optional \in BOOLEAN, def \in {<<>>, <<"3">>},
       kind \in ScalarKinds :
        \E so \in SourceOptions(m) :
            InitFrom(NoList, im, env, Disk(m), po \o so,
                     <<Field("F", BuildTag(lookup, optional, def), Scalar(kind))>>)

Spec == Init /\ [][Next]_vars

(***************************************************************************)
(* Properties of value resolution, checked under Spec                      *)
(***************************************************************************)
\* the field handled by the latest iteration of handleStruct
LastField == fields[last.field]

InEnv(key) == key \in DOMAIN environ

InFallback(key) == key \in DOMAIN config.Values

\* C1: whenever a field's tag parsed, resolution succeeds if the environment
\* or the fallback map holds the effective key, and the raw value resolved is
\* the environment's value if the environment holds the key (the empty string
\* included), else the fallback map's value if the map holds the key, else
\* the tag's default; what a lower source holds never changes the result.
C1_SourcePrecedence ==
    /\ (last.parsed /\ (InEnv(last.lookup) \/ InFallback(last.lookup))) => last.fetched
    /\ last.fetched =>
          last.raw = IF InEnv(last.lookup) THEN environ[last.lookup]
                     ELSE IF InFallback(last.lookup) THEN config.Values[last.lookup]
                     ELSE last.tag.Default

\* the environment holds the key with the empty string, the fallback map and
\* the tag's default hold other values, and the empty string was resolved
C1_Witness ==
    /\ last.fetched
    /\ InEnv(last.lookup) /\ environ[last.lookup] = <<>>
    /\ InFallback(last.lookup) /\ config.Values[last.lookup] # <<>>
    /\ last.tag.Default # <<>>
    /\ last.raw = <<>>

\* C2: for a field tagged optional with no default, when neither the
\* environment nor the fallback map holds the effective key, Load returns no
\* error and the field holds the zero value of its kind, for strings,
\* integers, floats and booleans alike.
C2_OptionalYieldsZero ==
    (/\ pc = "done"
     /\ last.parsed /\ last.tag.Optional /\ last.tag.Default = <<>>
     /\ ~InEnv(last.lookup) /\ ~InFallback(last.lookup))
    => /\ err = NoErr
       /\ obj[last.field] = ZeroKind(LastField.type.kind)

\* C3: for a field that is not optional and has no default, when no source
\* holds the effective key, Load fails with a field error that names the
\* field and carries the key after prefixing, and the field is not written.
C3_MissingRequired ==
    (/\ last.parsed /\ ~last.tag.Optional /\ last.tag.Default = <<>>
     /\ ~InEnv(last.lookup) /\ ~InFallback(last.lookup))
    => /\ pc = "done"
       /\ err.kind = "FieldError"
       /\ err.Field = LastField.name
       /\ err.stage = "fetch"
       /\ err.key = IF config.Prefix = <<>> \/ HasPrefix(last.tag.LookupName, config.Prefix)
                    THEN last.tag.LookupName
                    ELSE config.Prefix \o last.tag.LookupName
       /\ last.field \notin written
       /\ obj[last.field] = ZeroKind(LastField.type.kind)

\* a required field without value failed under a prefix that was prepended
C3_Witness ==
    /\ err.kind = "FieldError" /\ err.stage = "fetch"
    /\ config.Prefix = P
    /\ last.tag.LookupName = K
    /\ err.key = PK

\* C4: the effective lookup key is the tag's lookup key when the prefix is
\* empty or the lookup key already starts with the prefix, and prefix + lookup
\* key otherwise; so with a non-empty prefix it starts with the prefix, and
\* the effective key of an effective key is the same key.
C4_EffectiveKey ==
    last.parsed =>
        /\ (config.Prefix = <<>> \/ HasPrefix(last.tag.LookupName, config.Prefix))
              => last.lookup = last.tag.LookupName
        /\ ~(config.Prefix = <<>> \/ HasPrefix(last.tag.LookupName, config.Prefix))
              => last.lookup = config.Prefix \o last.tag.LookupName
        /\ config.Prefix # <<>> => HasPrefix(last.lookup, config.Prefix)
        /\ EffectiveKey(config.Prefix, last.lookup) = last.lookup

\* a lookup key that already carries the configured prefix was looked up as is
C4_Witness ==
    /\ last.parsed
    /\ config.Prefix = P
    /\ last.tag.LookupName = PK
    /\ last.lookup = PK

\* C5: with a prefix configured, a value supplied by WithFallbackValues or an
\* env-file under a key that does not start with the prefix is found and used
\* for the field tagged with that key, when the environment has no variable
\* prefix + key (and the fallback map none either).
C5_PrefixAppliedToFallbackKeys ==
    (/\ last.parsed
     /\ config.Prefix # <<>>
     /\ ~HasPrefix(last.tag.LookupName, config.Prefix)
     /\ InFallback(last.tag.LookupName)
     /\ ~InFallback(config.Prefix \o last.tag.LookupName)
     /\ ~InEnv(config.Prefix \o last.tag.LookupName))
    => /\ last.fetched
       /\ last.raw = config.Values[last.tag.LookupName]

(***************************************************************************)
(* Default literals                                                        *)
(***************************************************************************)
MaxDefaultLen == 3

\* the strings over Chars of length n, and of length at most n
RECURSIVE StringsOfLen(_, _)
StringsOfLen(Chars, n) ==
    IF n = 0 THEN {<<>>}
    ELSE {Append(w, c) : w \in StringsOfLen(Chars, n - 1), c \in Chars}

StringsUpTo(Chars, n) == UNION {StringsOfLen(Chars, l) : l \in 0..n}

DefaultChars == {"a", "b", "=", " "}

\* the literals written after "default=" in the tag
DefaultLiterals == StringsUpTo(DefaultChars, MaxDefaultLen) \ {<<>>}

\* A string field tagged K,default=<literal>, with K absent from or present
\* in the environment
InitDefault ==
    \E im \in Impls, d \in DefaultLiterals, optional \in BOOLEAN,
       env \in PartialMaps({K}, {<<"7">>}), po \in PrefixOptions :
        InitFrom(NoList, im, env, Disk(EmptyMap), po \o <<WithFallbackValues(EmptyMap)>>,
                 <<Field("F", BuildTag(K, optional, d), Scalar("string"))>>)

SpecDefault == InitDefault /\ [][Next]_vars

\* the text after "K,default=" of a tag K,default=<literal>
DefaultLiteralOf(tagStr) ==
    SubSeq(tagStr, Len(BuildTag(K, FALSE, <<"x">>)), Len(tagStr))

Plain(lit) == lit # <<>> /\ \A i \in 1..Len(lit) : lit[i] \notin DelimChars \cup {Space}

\* the literals a=b: a plain literal, "=", a plain literal
HasEqualsInside(lit) ==
    \E i \in 2..(Len(lit) - 1) :
        /\ lit[i] = "="
        /\ Plain(SubSeq(lit, 1, i - 1))
        /\ Plain(SubSeq(lit, i + 1, Len(lit)))

\* C6: a plain default value may contain "=": for a tag K,default=a=b and no
\* value for K in any source, Load succeeds and the field receives "a=b".
C6_DefaultWithEquals ==
    (/\ pc = "done"
     /\ HasPrefix(fields[1].tag, K \o Comma \o kDefault \o Equals)
     /\ HasEqualsInside(DefaultLiteralOf(fields[1].tag))
     /\ ~InEnv(EffectiveKey(config.Prefix, K))
     /\ ~InFallback(EffectiveKey(config.Prefix, K)))
    => /\ err = NoErr
       /\ obj[1] = DefaultLiteralOf(fields[1].tag)

\* C6 for the strings.Split revision alone, whose parseTag cuts the option at
\* its first "=" only
C6_SplitRevision == impl = "env1" => C6_DefaultWithEquals

(***************************************************************************)
(* Lists                                                                   *)
(***************************************************************************)
MaxElemLen == 1

\* the characters of the elements: digits for a list of integers; a letter,
\* white space and the closing bracket for a list of strings
ElemChars(kind) == IF kind = "int" THEN {"1", "2"} ELSE {"a", " ", "]"}

\* the list elements the caller writes
Elems(kind) == StringsUpTo(ElemChars(kind), MaxElemLen)

\* the delimiters the caller writes after "split="
Delims == {Pipe, Comma, Close, <<Space>>, <<"a", "a">>}

\* the raw string "e1 c e2 c e3"
Joined(c, e) == e[1] \o c \o e[2] \o c \o e[3]

\* the tag "K,split=c"
SplitTag(c) == K \o Comma \o kSplit \o Equals \o c

\* the tag "K,split=c,default=[e1 c e2 c e3]"
SplitDefaultTag(c, e) ==
    SplitTag(c) \o Comma \o kDefault \o Equals \o Open \o Joined(c, e) \o Close

\* A list field of three elements e and delimiter c, in one of four ways:
\*   "split-default"  tag K,split=c,default=[e1 c e2 c e3], K in no source
\*   "split-env"      tag K,split=c, environment K = e1 c e2 c e3
\*   "plain-default"  tag K,default=e1|e2|e3, K in no source
\*   "plain-env"      tag K, environment K = e1|e2|e3
\* The split option exists in the tokenizing revision only.
ListCall(g, im) ==
    LET lit == Joined(g.c, g.e)
        tag == CASE g.mode = "split-default" -> SplitDefaultTag(g.c, g.e)
                 [] g.mode = "split-env"     -> SplitTag(g.c)
                 [] g.mode = "plain-default" -> BuildTag(K, FALSE, lit)
                 [] g.mode = "plain-env"     -> K
        env == IF g.mode \in {"split-env", "plain-env"} THEN [k \in {K} |-> lit] ELSE EmptyMap
    IN  InitFrom(g, im, env, Disk(EmptyMap), <<WithFallbackValues(EmptyMap)>>,
                 <<Field("F", tag, SliceOf(g.kind))>>)

InitList ==
    \E kind \in {"string", "int"} : \E e \in Elems(kind) \X Elems(kind) \X Elems(kind) :
        \/ \E c \in Delims, mode \in {"split-default", "split-env"} :
              ListCall([mode |-> mode, c |-> c, e |-> e, kind |-> kind, key |-> ""], "env3")
        \/ \E im \in Impls, mode \in {"plain-default", "plain-env"} :
              ListCall([mode |-> mode, c |-> Pipe, e |-> e, kind |-> kind, key |-> ""], im)

SpecList == InitList /\ [][Next]_vars

Contains(s, sub) == Index(s, sub) # 0

\* no element contains the delimiter
NoneContains(e, c) == \A i \in 1..3 : ~Contains(e[i], c)

\* the elements can be read as values of the kind
Convertible(kind, e) == kind = "string" \/ \A i \in 1..3 : AllDigits(e[i])

\* the list [e1, e2, e3] as values of the kind
ExpectedList(kind, e) == IF kind = "string" THEN e ELSE [i \in 1..3 |-> DecVal(e[i])]

\* the positions at which c occurs in s
Occurrences(s, c) == {i \in 1..Len(s) : i + Len(c) - 1 <= Len(s) /\ SubSeq(s, i, i + Len(c) - 1) = c}

\* c occurs in "e1 c e2 c e3" at the two separators only
SeparatorsOnly(c, e) ==
    Occurrences(Joined(c, e), c) = {Len(e[1]) + 1, Len(e[1]) + Len(c) + Len(e[2]) + 1}

\* no element contains "]" or white space
NoCloseNoSpace(e) == \A i \in 1..3 : \A j \in 1..Len(e[i]) : e[i][j] \notin {"]", Space}

ListLoaded ==
    /\ err = NoErr
    /\ 1 \in written
    /\ obj[1] = ExpectedList(given.kind, given.e)

\* C7 as claimed: for every delimiter c accepted by split= and elements
\* e1, e2, e3 that do not contain c, the tag K,split=c,default=[e1 c e2 c e3]
\* with no value for K parses, resolves the raw default "e1ce2ce3" and
\* coerces it to the list [e1, e2, e3].
C7_AnyDelimiter ==
    (/\ pc = "done"
     /\ given.mode = "split-default"
     /\ ParseMinienvTag(SplitTag(given.c)).ok
     /\ NoneContains(given.e, given.c)
     /\ Convertible(given.kind, given.e))
    => /\ last.fetched /\ last.raw = Joined(given.c, given.e)
       /\ ListLoaded

\* C7, amended: the same for every delimiter c other than "]" and elements
\* that contain neither c nor "]" nor white space, when c occurs in e1ce2ce3
\* at the two separators only (as it always does for a one-character c).
C7_SplitDefaultList ==
    (/\ pc = "done"
     /\ given.mode = "split-default"
     /\ ParseMinienvTag(SplitTag(given.c)).ok
     /\ given.c # Close
     /\ NoneContains(given.e, given.c)
     /\ NoCloseNoSpace(given.e)
     /\ SeparatorsOnly(given.c, given.e)
     /\ Convertible(given.kind, given.e))
    => /\ last.fetched /\ last.raw = Joined(given.c, given.e)
       /\ ListLoaded

\* the tag K,split=|,default=[1|2|1] gave the list [1, 2, 1] of integers
C7_Witness ==
    /\ pc = "done"
    /\ given.mode = "split-default"
    /\ given.c = Pipe
    /\ given.kind = "int"
    /\ given.e = << <<"1">>, <<"2">>, <<"1">> >>
    /\ last.tag.SplitOn = Pipe
    /\ last.raw = <<"1", "|", "2", "|", "1">>
    /\ err = NoErr
    /\ obj[1] = <<1, 2, 1>>

\* C8 as claimed: for all delimiters c and elements e1, e2, e3 not containing
\* c, with split=c in the tag, coercing the resolved raw string "e1ce2ce3" to
\* a list yields exactly the three elements e1, e2, e3 in source order.
C8_AnyDelimiter ==
    (/\ pc = "done"
     /\ given.mode = "split-env"
     /\ NoneContains(given.e, given.c)
     /\ Convertible(given.kind, given.e))
    => /\ last.fetched /\ last.raw = Joined(given.c, given.e)
       /\ ListLoaded

\* C8, amended: the same for the delimiters c that split= accepts, when c
\* occurs in e1ce2ce3 at the two separators only, as it always does for a
\* one-character delimiter.
C8_SplitOrder ==
    (/\ pc = "done"
     /\ given.mode = "split-env"
     /\ ParseMinienvTag(SplitTag(given.c)).ok
     /\ NoneContains(given.e, given.c)
     /\ SeparatorsOnly(given.c, given.e)
     /\ Convertible(given.kind, given.e))
    => /\ last.fetched /\ last.raw = Joined(given.c, given.e)
       /\ ListLoaded

\* the environment value "a,,]" split on "," gave the three elements a, "", ]
C8_Witness ==
    /\ pc = "done"
    /\ given.mode = "split-env"
    /\ last.tag.SplitOn = Comma
    /\ last.raw = <<"a", ",", ",", "]">>
    /\ err = NoErr
    /\ obj[1] = << <<"a">>, <<>>, <<"]">> >>

\* C9: a list field whose tag gives no split option is split on "|": the raw
\* value "e1|e2|e3", from a source or from the default, yields the three
\* elements e1, e2, e3.
C9_DefaultDelimiter ==
    (/\ pc = "done"
     /\ given.mode \in {"plain-default", "plain-env"}
     /\ NoneContains(given.e, Pipe)
     /\ NoCloseNoSpace(given.e)
     /\ Convertible(given.kind, given.e))
    => ListLoaded

\* the same property restricted to the strings.Split revision, whose set
\* splits on "|"
C9_SplitRevision == impl = "env1" => C9_DefaultDelimiter

(***************************************************************************)
(* Maps                                                                    *)
(***************************************************************************)
MaxEntries == 3

\* the texts the caller writes for keys and values of a kind; "x" is no integer
KeyTexts(kind) == IF kind = "int" THEN {<<"1">>, <<"2">>} ELSE {<<"a">>, <<"b">>}

ValueTexts(kind) ==
    IF kind = "int" THEN {<<"1">>, <<"2">>, <<"3">>, <<"x">>}
    ELSE {<<"1">>, <<"x">>, <<"1", ":", "2">>}

\* an entry as the caller writes it: "k:v", or the bare key without ":"
EntriesOf(key, elem) ==
    [k : KeyTexts(key), v : ValueTexts(elem), colon : {TRUE}]
        \cup [k : KeyTexts(key), v : {<<>>}, colon : {FALSE}]

EntryText(entry) == IF entry.colon THEN entry.k \o Colon \o entry.v ELSE entry.k

\* the sequences of 1..n elements of S
SeqsUpTo(S, n) == UNION {[1..m -> S] : m \in 1..n}

\* the raw string of the entries, joined with "|"
MapText(entries) == Join([i \in 1..Len(entries) |-> EntryText(entries[i])], Pipe)

\* the kinds of the map fields: map[string]string, map[string]int, map[int]int
MapKinds == {<<"string", "string">>, <<"string", "int">>, <<"int", "int">>}

\* a map field tagged K, with the entries in the environment or in the
\* fallback values
InitMap ==
    \E kinds \in MapKinds, fromEnv \in BOOLEAN :
      \E entries \in SeqsUpTo(EntriesOf(kinds[1], kinds[2]), MaxEntries) :
        LET src == [k \in {K} |-> MapText(entries)]
        IN  InitFrom([mode |-> "map", c |-> Pipe, e |-> entries, kind |-> kinds[2], key |-> kinds[1]],
                     "envmap",
                     IF fromEnv THEN src ELSE EmptyMap,
                     Disk(EmptyMap),
                     <<WithFallbackValues(IF fromEnv THEN EmptyMap ELSE src)>>,
                     <<Field("M", K, MapOf(kinds[1], kinds[2]))>>)

SpecMap == InitMap /\ [][Next]_vars

\* every entry is written "k:v" with a key and a value of the map's kinds
WellFormed(g) ==
    \A i \in 1..Len(g.e) :
        /\ g.e[i].colon
        /\ ConvertScalar(g.key, g.e[i].k).ok
        /\ ConvertScalar(g.kind, g.e[i].v).ok

KeyOfEntry(g, i) == ConvertScalar(g.key, g.e[i].k).v

ValueOfEntry(g, i) == ConvertScalar(g.kind, g.e[i].v).v

\* entry i is the last entry with its key
LastWithKey(g, i) == \A j \in (i + 1)..Len(g.e) : KeyOfEntry(g, j) # KeyOfEntry(g, i)

\* some key is written in more than one entry
HasDuplicate(g) == \E i, j \in 1..Len(g.e) : i < j /\ KeyOfEntry(g, i) = KeyOfEntry(g, j)

\* C10: coercing the raw string of well-formed entries to a map raises no
\* error, and the map holds exactly the keys written, each once, with the
\* value of the last entry that has the key ("a:1|b:2|a:3" gives {a:3, b:2}).
C10_LastWins ==
    (/\ pc = "done"
     /\ given.mode = "map"
     /\ WellFormed(given))
    => /\ err = NoErr
       /\ 1 \in written
       /\ DOMAIN obj[1] = {KeyOfEntry(given, i) : i \in 1..Len(given.e)}
       /\ \A i \in 1..Len(given.e) :
              LastWithKey(given, i) => obj[1][KeyOfEntry(given, i)] = ValueOfEntry(given, i)

\* M = "a:1|b:2|a:3" was coerced to the map {a:3, b:2} of integers
C10_Witness ==
    /\ pc = "done"
    /\ given.mode = "map"
    /\ given.key = "string" /\ given.kind = "int"
    /\ HasDuplicate(given)
    /\ last.raw = <<"a", ":", "1", "|", "b", ":", "2", "|", "a", ":", "3">>
    /\ err = NoErr
    /\ obj[1] = (<<"a">> :> 3 @@ <<"b">> :> 2)

(***************************************************************************)
(* Integers                                                                *)
(***************************************************************************)
MaxIntLen == 3

IntChars == {"0", "1", "3", "-", "a"}

\* the raw strings the environment holds for an integer field
IntTexts == StringsUpTo(IntChars, MaxIntLen)

\* the integer kinds of the field: int8, and int (64 bits, which no text of
\* this length exceeds)
IntKinds == {"int8", "int"}

\* an integer field tagged K with the raw string in the environment
InitInt ==
    \E im \in Impls, kind \in IntKinds, raw \in IntTexts :
        InitFrom([mode |-> "int", c |-> <<>>, e |-> raw, kind |-> kind, key |-> ""],
                 im, [k \in {K} |-> raw], Disk(EmptyMap),
                 <<WithFallbackValues(EmptyMap)>>,
                 <<Field("F", K, Scalar(kind))>>)

SpecInt == InitInt /\ [][Next]_vars

\* s is a base-10 signed integer: an optional sign and one or more digits
IsDecimal(s) == AllDigits(Unsign(s))

DecimalValue(s) == IF Head(s) = "-" THEN 0 - DecVal(Unsign(s)) ELSE DecVal(Unsign(s))

\* the value of s fits a field of the kind
FitsKind(kind, s) ==
    kind = "int" \/ (DecimalValue(s) >= 0 - 2^(IntBits(kind) - 1) /\ DecimalValue(s) < 2^(IntBits(kind) - 1))

\* C11: coercing a raw string that is not a base-10 signed integer, or whose
\* value does not fit the width of the integer field, fails with an error
\* and stores nothing in the field.
C11_IntegerRange ==
    (/\ pc = "done"
     /\ given.mode = "int"
     /\ ~(IsDecimal(given.e) /\ FitsKind(given.kind, given.e)))
    => /\ err # NoErr
       /\ 1 \notin written

\* the same property for the fields of kind int, as wide as strconv.Atoi's result
C11_FullWidth == given.kind = "int" => C11_IntegerRange

(***************************************************************************)
(* Tags                                                                    *)
(***************************************************************************)
MaxPieces == 4

\* the pieces a tag is written from: the delimiter characters, white space,
\* a letter and the option names
TagPieces == {Comma, Equals, Open, Close, <<Space>>, <<"a">>, kSplit, kDefault}

\* the sequences of 0..n elements of S
SeqsFromZero(S, n) == UNION {[1..m -> S] : m \in 0..n}

\* what the pieces are written after: nothing, "K," or "K,default=[a]"
TagStarts == {<<>>, K \o Comma, K \o Comma \o kDefault \o Equals \o Open \o <<"a">> \o Close}

\* the tag strings: a start and the pieces written one after the other
TagTexts == {pre \o Concat(ps) : pre \in TagStarts, ps \in SeqsFromZero(TagPieces, MaxPieces)}

\* a string field with the tag, K = "7" in the environment, tokenizing revision
InitTag ==
    \E t \in TagTexts :
        InitFrom([mode |-> "tag", c |-> <<>>, e |-> t, kind |-> "string", key |-> ""],
                 "env3", [k \in {K} |-> <<"7">>], Disk(EmptyMap),
                 <<WithFallbackValues(EmptyMap)>>,
                 <<Field("F", t, Scalar("string"))>>)

SpecTag == InitTag /\ [][Next]_vars

\* s holds no delimiter character and is not blank: a lookup key and nothing else
OnlyLookup(s) == TrimSpace(s) # <<>> /\ \A i \in 1..Len(s) : s[i] \notin DelimChars

\* the field's tag has been handled
TagHandled == pc = "done" /\ given.mode = "tag" /\ last.field = 1

\* C12 as claimed: a tag string s that is only a lookup key parses, with
\* lookup_key = s, optional false, no default and no split.
C12_RoundTrip ==
    (TagHandled /\ OnlyLookup(given.e))
    => /\ last.parsed
       /\ last.tag = [ZeroTag EXCEPT !.LookupName = given.e]

\* C12, amended: a tag string s that is only a lookup key parses, with
\* lookup_key = s without its leading and trailing white space (s itself when
\* it has none), optional false, no default and no split.
C12_TrimmedRoundTrip ==
    (TagHandled /\ OnlyLookup(given.e))
    => /\ last.parsed
       /\ last.tag = [ZeroTag EXCEPT !.LookupName = TrimSpace(given.e)]
       /\ (given.e = TrimSpace(given.e) => last.tag.LookupName = given.e)

\* the tag " a a " was parsed to the lookup key "a a" and nothing else
C12_Witness ==
    /\ TagHandled
    /\ given.e = <<" ", "a", " ", "a">>
    /\ last.parsed
    /\ last.tag = [ZeroTag EXCEPT !.LookupName = <<"a", " ", "a">>]

(***************************************************************************)
(* Plain and bracketed defaults                                            *)
(***************************************************************************)
\* the tag "K,default=[d]"
BracketTag(d) == K \o Comma \o kDefault \o Equals \o Open \o d \o Close

\* a string field tagged K,default=d ("default-plain") or K,default=[d]
\* ("default-bracket"), K in no source, tokenizing revision
InitForms ==
    \E d \in DefaultLiterals, form \in {"default-plain", "default-bracket"} :
        InitFrom([mode |-> form, c |-> <<>>, e |-> d, kind |-> "string", key |-> ""],
                 "env3", EmptyMap, Disk(EmptyMap),
                 <<WithFallbackValues(EmptyMap)>>,
                 <<Field("F", IF form = "default-plain" THEN BuildTag(K, FALSE, d) ELSE BracketTag(d),
                         Scalar("string"))>>)

SpecForms == InitForms /\ [][Next]_vars

\* C13: for every default literal d (none of this specification contains
\* ",", "[" or "]"), the tags K,default=d and K,default=[d] both parse and
\* both give the default value d.
C13_PlainEqualsBracketed ==
    (/\ pc = "done"
     /\ given.mode \in {"default-plain", "default-bracket"})
    => /\ last.parsed
       /\ last.tag.Default = given.e

\* the same property for the literals without "=" and without white space at
\* their ends
C13_SimpleLiterals ==
    (\A i \in 1..Len(given.e) : given.e[i] # "=") /\ given.e = TrimSpace(given.e)
        => C13_PlainEqualsBracketed

(***************************************************************************)
(* Options of a tag                                                        *)
(***************************************************************************)
MaxOptions == 3

\* an option as written after the lookup key, with the value it stands for
Option(name, text, val) == [name |-> name, text |-> text, val |-> val]

\* the well-formed options: optional; default=a, default=optional,
\* default=[a,b]; split=x, split=], split=,
WellFormedOptions ==
    {Option("optional", kOptional, <<>>)}
        \cup {Option("default", kDefault \o Equals \o d, d) : d \in {<<"a">>, kOptional}}
        \cup {Option("default", kDefault \o Equals \o Open \o <<"a", ",", "b">> \o Close, <<"a", ",", "b">>)}
        \cup {Option("split", kSplit \o Equals \o c, c) : c \in {<<"x">>, Close, Comma}}

\* the tag "K,o1,o2,..."
RECURSIVE OptionsTag(_)
OptionsTag(opts) ==
    IF opts = <<>> THEN K
    ELSE OptionsTag(SubSeq(opts, 1, Len(opts) - 1)) \o Comma \o opts[Len(opts)].text

\* a string field tagged with K and up to MaxOptions options, K = "7" in the
\* environment, tokenizing revision
InitOptions ==
    \E opts \in SeqsFromZero(WellFormedOptions, MaxOptions) :
        InitFrom([mode |-> "options", c |-> <<>>, e |-> opts, kind |-> "string", key |-> ""],
                 "env3", [k \in {K} |-> <<"7">>], Disk(EmptyMap),
                 <<WithFallbackValues(EmptyMap)>>,
                 <<Field("F", OptionsTag(opts), Scalar("string"))>>)

SpecOptions == InitOptions /\ [][Next]_vars

OptionsHandled == pc = "done" /\ given.mode = "options" /\ last.field = 1

\* no option name occurs twice
NoRepeat(opts) == \A i, j \in 1..Len(opts) : opts[i].name = opts[j].name => i = j

\* the options written, as a set
OptionSet(opts) == {opts[i] : i \in 1..Len(opts)}

\* the value of the option of that name in a set with at most one, "" without
ValueIn(S, name) ==
    IF \E o \in S : o.name = name THEN (CHOOSE o \in S : o.name = name).val ELSE <<>>

\* the descriptor a set of options stands for
DescriptorOf(S) ==
    [LookupName |-> K,
     Optional   |-> \E o \in S : o.name = "optional",
     Default    |-> ValueIn(S, "default"),
     SplitOn    |-> ValueIn(S, "split")]

\* C14: a tag whose options are well formed and all different in name parses,
\* in whatever order they are written, to the descriptor of the set of options.
C14_OrderIrrelevant ==
    (OptionsHandled /\ NoRepeat(given.e))
    => /\ last.parsed
       /\ last.tag = DescriptorOf(OptionSet(given.e))

\* the tag K,split=,,default=[a,b],optional was parsed to its descriptor
C14_Witness ==
    /\ OptionsHandled
    /\ Len(given.e) = 3
    /\ NoRepeat(given.e)
    /\ given.e[1].name = "split" /\ given.e[1].val = Comma
    /\ given.e[2].name = "default" /\ given.e[2].val = <<"a", ",", "b">>
    /\ last.parsed
    /\ last.tag = [LookupName |-> K, Optional |-> TRUE, Default |-> <<"a", ",", "b">>, SplitOn |-> Comma]

\* the position of the last option of that name, 0 without
LastOf(opts, name) ==
    IF \E i \in 1..Len(opts) : opts[i].name = name
    THEN CHOOSE i \in 1..Len(opts) :
             opts[i].name = name /\ \A j \in (i + 1)..Len(opts) : opts[j].name # name
    ELSE 0

LastValue(opts, name) == IF LastOf(opts, name) = 0 THEN <<>> ELSE opts[LastOf(opts, name)].val

\* some option name occurs twice
Repeats(opts) == ~NoRepeat(opts)

\* C15: a tag in which options are repeated parses, and the descriptor holds
\* for default and split the value of the last occurrence, and optional true
\* when optional is written once or more.
C15_LastOccurrenceWins ==
    (OptionsHandled /\ Repeats(given.e))
    => /\ last.parsed
       /\ last.tag.LookupName = K
       /\ last.tag.Default = LastValue(given.e, "default")
       /\ last.tag.SplitOn = LastValue(given.e, "split")
       /\ last.tag.Optional = (LastOf(given.e, "optional") # 0)

\* the tag K,default=[a,b],split=x,default=a was parsed to the default a
C15_Witness ==
    /\ OptionsHandled
    /\ Len(given.e) = 3
    /\ given.e[1].name = "default" /\ given.e[1].val = <<"a", ",", "b">>
    /\ given.e[2].name = "split" /\ given.e[2].val = <<"x">>
    /\ given.e[3].name = "default" /\ given.e[3].val = <<"a">>
    /\ last.parsed
    /\ last.tag.Default = <<"a">>
    /\ last.tag.SplitOn = <<"x">>

(***************************************************************************)
(* The split option                                                        *)
(***************************************************************************)
\* the tag's tokens start with K , split
SplitFirst(ts) == Len(ts) >= 3 /\ ts[1] = K /\ ts[2] = Comma /\ ts[3] = kSplit

\* the tag is K,split=T or K,split=T, for one token T
SplitWellFormed(ts) ==
    /\ SplitFirst(ts)
    /\ Len(ts) \in {5, 6}
    /\ ts[4] = Equals
    /\ Len(ts) = 6 => ts[6] = Comma

\* split without "=", split= without a token, or split=T directly followed
\* by a token other than ","
SplitMalformed(ts) ==
    /\ SplitFirst(ts)
    /\ \/ Len(ts) = 3
       \/ ts[4] # Equals
       \/ Len(ts) = 4
       \/ Len(ts) >= 6 /\ ts[6] # Comma

\* C16: K,split=T and K,split=T, parse for every token T, "," included, with
\* split_on = T; split without "=", split= without a token after it and
\* split=T directly followed by a token other than "," do not parse.
C16_SplitOption ==
    TagHandled =>
        /\ SplitWellFormed(last.tokens) => last.parsed /\ last.tag.SplitOn = last.tokens[5]
        /\ SplitMalformed(last.tokens) => ~last.parsed /\ err # NoErr /\ 1 \notin written

\* the tag K,split=, was parsed to the delimiter ","
C16_Witness ==
    /\ TagHandled
    /\ given.e = K \o Comma \o kSplit \o Equals \o Comma
    /\ SplitWellFormed(last.tokens)
    /\ last.parsed
    /\ last.tag.SplitOn = Comma

(***************************************************************************)
(* The default option                                                      *)
(***************************************************************************)
\* the tag's tokens start with K , default =
DefaultFirst(ts) ==
    Len(ts) >= 4 /\ ts[1] = K /\ ts[2] = Comma /\ ts[3] = kDefault /\ ts[4] = Equals

\* K,default=[ ... with no "]" up to the end of the tag
Unclosed(ts) ==
    /\ DefaultFirst(ts)
    /\ Len(ts) >= 5
    /\ ts[5] = Open
    /\ \A i \in 6..Len(ts) : ts[i] # Close

\* C17: a tag K,default=[... whose "]" is missing, "[" being the last token
\* or not, does not parse: Load returns the parse error, and no descriptor
\* and no value come of it.
C17_MissingClose ==
    (TagHandled /\ Unclosed(last.tokens))
    => /\ ~last.parsed
       /\ last.tag = ZeroTag
       /\ err # NoErr /\ err.msg = "missing closing ] in default tag"
       /\ 1 \notin written

\* the tag K,default=[ was rejected
C17_Witness ==
    /\ TagHandled
    /\ given.e = K \o Comma \o kDefault \o Equals \o Open
    /\ Unclosed(last.tokens)
    /\ ~last.parsed
    /\ err.msg = "missing closing ] in default tag"

\* K,default= at the end of the tag or followed by ","
NoDefaultValue(ts) == DefaultFirst(ts) /\ (Len(ts) = 4 \/ ts[5] = Comma)

\* K,default=[] ...
EmptyBrackets(ts) == DefaultFirst(ts) /\ Len(ts) >= 6 /\ ts[5] = Open /\ ts[6] = Close

\* C18: the tags K,default=[], K,default=,... and K,default= do not parse.
C18_ValuelessDefault ==
    (TagHandled /\ (EmptyBrackets(last.tokens) \/ NoDefaultValue(last.tokens)))
    => ~last.parsed /\ err # NoErr

\* the same property without the empty bracket pair
C18_NoValueAfterEquals ==
    (TagHandled /\ NoDefaultValue(last.tokens))
    => ~last.parsed /\ err # NoErr

(***************************************************************************)
(* The tokens                                                              *)
(***************************************************************************)
IsDelim(c) == c \in DelimChars

NotSpace(c) == c # Space

\* a token that is one delimiter character
DelimToken(t) == Len(t) = 1 /\ IsDelim(t[1])

\* a token that is a literal: not empty, no delimiter character inside, no
\* white space at its ends
LiteralToken(t) ==
    /\ t # <<>>
    /\ \A i \in 1..Len(t) : ~IsDelim(t[i])
    /\ t[1] # Space /\ t[Len(t)] # Space

\* the tokens that are delimiters, in order, as characters
DelimTokens(ts) == Concat(SelectSeq(ts, DelimToken))

\* the tag is K followed by commas and white space only
OnlyBlankOptions(s) ==
    /\ HasPrefix(s, K \o Comma)
    /\ \A i \in 2..Len(s) : s[i] \in {",", Space}

\* C19: every token of tokenize is one delimiter character or a literal; the
\* tokens hold the characters of the tag other than white space in the
\* order of the tag; the delimiter tokens are the delimiter characters of the
\* tag, one token each; and a tag whose options are all blank parses to its
\* lookup key alone.
C19_Tokens ==
    TagHandled =>
        /\ \A i \in 1..Len(last.tokens) :
               DelimToken(last.tokens[i]) \/ LiteralToken(last.tokens[i])
        /\ SelectSeq(Concat(last.tokens), NotSpace) = SelectSeq(given.e, NotSpace)
        /\ DelimTokens(last.tokens) = SelectSeq(given.e, IsDelim)
        /\ OnlyBlankOptions(given.e) =>
               last.parsed /\ last.tag = [ZeroTag EXCEPT !.LookupName = K]

\* the tag "K, a ," gave the tokens K , a , and the blank before "a" no token
C19_Witness ==
    /\ TagHandled
    /\ given.e = <<"K", ",", " ", "a", " ", ",">>
    /\ last.tokens = <<K, Comma, <<"a">>, Comma>>

(***************************************************************************)
(* Several env-files                                                       *)
(***************************************************************************)
MaxFiles == 2

FileNames == {EnvFile, "b.env"}

\* a file on disk: readable or not; without K, or with K=1 or K=2
FileContents == [readable : BOOLEAN, values : PartialMaps({K}, {<<"1">>, <<"2">>})]

\* Load(&s, [WithFallbackValues({K: 9}),] WithFile(required, names...)) with a
\* string field tagged K and K not in the environment
InitFiles ==
    \E im \in Impls, disk \in [FileNames -> FileContents], required \in BOOLEAN,
       names \in SeqsUpTo(FileNames, MaxFiles),
       before \in {<<>>, <<WithFallbackValues([k \in {K} |-> <<"9">>])>>} :
        InitFrom([mode |-> "files", c |-> <<>>, e |-> names, kind |-> "string", key |-> "",
                  required |-> required],
                 im, EmptyMap, disk, before \o <<WithFile(required, names)>>,
                 <<Field("F", K, Scalar("string"))>>)

SpecFiles == InitFiles /\ [][Next]_vars

\* the positions in the list of the files that can be read and hold the key
Holding(names, fs, key) ==
    {i \in 1..Len(names) : fs[names[i]].readable /\ key \in DOMAIN fs[names[i]].values}

Max(S) == CHOOSE x \in S : \A y \in S : y <= x

\* the value of the key in the last listed file that holds it
LastFileValue(names, fs, key) == fs[names[Max(Holding(names, fs, key))]].values[key]

\* every option has been applied without error
FilesApplied == given.mode = "files" /\ options = <<>> /\ err.kind # "FileError"

\* C20: after a WithFile call whose files hold the key, the fallback map has
\* for the key the value of the last listed file that holds it, whatever the
\* earlier files and the fallback map held, and the field tagged with the
\* key is loaded with that value.
C20_LastFileWins ==
    (FilesApplied /\ Holding(given.e, files, K) # {})
    => /\ K \in DOMAIN config.Values
       /\ config.Values[K] = LastFileValue(given.e, files, K)
       /\ pc = "done" => err = NoErr /\ obj[1] = LastFileValue(given.e, files, K)

\* WithFile("a.env", "b.env") with K=1 in a.env and K=2 in b.env loaded "2"
C20_Witness ==
    /\ FilesApplied
    /\ pc = "done"
    /\ given.e = <<EnvFile, "b.env">>
    /\ Holding(given.e, files, K) = {1, 2}
    /\ files[EnvFile].values[K] = <<"1">>
    /\ files["b.env"].values[K] = <<"2">>
    /\ config.Values[K] = <<"2">>
    /\ obj[1] = <<"2">>

\* some listed file cannot be read
SomeUnreadable(names, fs) == \E i \in 1..Len(names) : ~fs[names[i]].readable

C22_DeclaredDefaultUsed ==
    (/\ pc = "done"
     /\ given.mode \in {"default-plain", "default-bracket"}
     /\ last.parsed)
    => /\ last.fetched
       /\ last.raw = last.tag.Default
       /\ err = NoErr

\* the same property for the tags whose parsed default is not the empty string
C22_NonEmptyDefault == last.tag.Default # <<>> => C22_DeclaredDefaultUsed

(***************************************************************************)
(* The grammar of a tag                                                    *)
(***************************************************************************)
\* the position of the first "]" at or after i, 0 without
FirstClose(ts, i) ==
    IF \E j \in i..Len(ts) : ts[j] = Close
    THEN CHOOSE j \in i..Len(ts) : ts[j] = Close /\ \A k \in i..(j - 1) : ts[k] # Close
    ELSE 0

\* the position after the option that starts at i, 0 when the tokens at i are
\* no option: optional | default = value | default = [ ... ] | split = token
\* (then "," or the end)
AfterOption(ts, i) ==
    CASE ts[i] = kOptional -> i + 1
      [] ts[i] = kSplit ->
            IF i + 2 <= Len(ts) /\ ts[i + 1] = Equals /\ (i + 3 > Len(ts) \/ ts[i + 3] = Comma)
            THEN i + 3 ELSE 0
      [] ts[i] = kDefault ->
            IF i + 2 <= Len(ts) /\ ts[i + 1] = Equals /\ ts[i + 2] # Comma
            THEN IF ts[i + 2] = Open
                 THEN IF FirstClose(ts, i + 2) = 0 THEN 0 ELSE FirstClose(ts, i + 2) + 1
                 ELSE i + 3
            ELSE 0
      [] OTHER -> 0

IsOptionName(t) == t \in {kOptional, kSplit, kDefault}

\* the tokens from i on are (',' option)*, a comma before every option; a
\* comma may also stand alone (a blank option, a trailing comma)
RECURSIVE CommaSeparated(_, _)
CommaSeparated(ts, i) ==
    IF i > Len(ts) THEN TRUE
    ELSE IF ts[i] # Comma THEN FALSE
    ELSE IF i + 1 > Len(ts) \/ ts[i + 1] = Comma THEN CommaSeparated(ts, i + 1)
    ELSE AfterOption(ts, i + 1) # 0 /\ CommaSeparated(ts, AfterOption(ts, i + 1))

\* the tokens from i on are commas and options in any sequence: "ok"; the
\* first token that is neither starts no option: "invalid token"; an option
\* name is not followed by what the option needs: "bad option"
RECURSIVE Scan(_, _)
Scan(ts, i) ==
    IF i > Len(ts) THEN "ok"
    ELSE IF ts[i] = Comma THEN Scan(ts, i + 1)
    ELSE IF ~IsOptionName(ts[i]) THEN "invalid token"
    ELSE IF AfterOption(ts, i) = 0 THEN "bad option"
    ELSE Scan(ts, AfterOption(ts, i))

\* C23 as claimed: a tag parses only when its tokens after the first are
\* (',' option)*, every option after a separator comma.
C23_CommaBeforeOption ==
    (TagHandled /\ last.parsed) => CommaSeparated(last.tokens, 2)

\* C23, amended: a tag parses exactly when its tokens after the first are
\* commas and options (optional, default=value, default=[...], split=token
\* followed by a comma or the end) in any sequence; the first token after the
\* first that is neither a comma nor the start of an option makes parsing
\* fail with the invalid-token error.
C23_Grammar ==
    (TagHandled /\ last.tokens # <<>>)
    => /\ last.parsed <=> Scan(last.tokens, 2) = "ok"
       /\ Scan(last.tokens, 2) = "invalid token"
              => err # NoErr /\ err.stage = "parse" /\ err.msg = "invalid token in tag"

\* the tag K,default=[a]split=a parsed, with no comma before split
C23_Witness ==
    /\ TagHandled
    /\ given.e = K \o Comma \o kDefault \o Equals \o Open \o <<"a">> \o Close \o kSplit \o Equals \o <<"a">>
    /\ ~CommaSeparated(last.tokens, 2)
    /\ last.parsed
    /\ last.tag = [LookupName |-> K, Optional |-> FALSE, Default |-> <<"a">>, SplitOn |-> <<"a">>]

(***************************************************************************)
(* Structs with several fields and nested structs                          *)
(***************************************************************************)
MaxLeaves == 3

\* what becomes of a field: loaded, not tagged, or failing in one of the
\* three stages
Behaviours == {"ok", "untagged", "parse", "fetch", "set"}

FailingBehaviours == {"parse", "fetch", "set"}

\* the i-th field in the order of the source text, named <<"F", i>>; K = "7"
\* is in the environment and M is in no source
LeafField(i, b) ==
    CASE b = "ok"       -> Field(<<"F", i>>, K, Scalar("int"))
      [] b = "untagged" -> Untagged(<<"F", i>>, Scalar("int"))
      [] b = "parse"    -> Field(<<"F", i>>, K \o Comma \o <<"x">>, Scalar("int"))
      [] b = "fetch"    -> Field(<<"F", i>>, <<"M">>, Scalar("int"))
      [] b = "set"      -> Field(<<"F", i>>, K, Scalar("bool"))

LeafFields(bs) == [i \in 1..Len(bs) |-> LeafField(i, bs[i])]

\* the fields with those from a to b put into a nested struct N, and, when
\* deep, the first of them into a struct of its own inside N
Nest(flds, a, b, deep) ==
    LET inner == SubSeq(flds, a, b)
        sub   == IF deep THEN <<StructField("D", <<Head(inner)>>)>> \o Tail(inner) ELSE inner
    IN  SubSeq(flds, 1, a - 1) \o <<StructField("N", sub)>> \o SubSeq(flds, b + 1, Len(flds))

\* the value a field holds before Load is called
PriorValue(kind) == IF kind = "bool" THEN TRUE ELSE 5

\* Load on a struct of 1..MaxLeaves fields, some inside nested structs, whose
\* fields hold values before the call
InitStruct ==
    \E im \in Impls, bs \in SeqsUpTo(Behaviours, MaxLeaves) :
      \E a \in 1..Len(bs), deep \in BOOLEAN, nested \in BOOLEAN :
        \E b \in a..Len(bs) :
          LET flat == LeafFields(bs)
              tree == IF nested THEN Nest(flat, a, b, deep) ELSE flat
              flds == Leaves(tree)
          IN  InitObject([mode |-> "struct", c |-> <<>>, e |-> bs, kind |-> "", key |-> "", tree |-> tree],
                         im, [k \in {K} |-> <<"7">>], Disk(EmptyMap),
                         <<WithFallbackValues(EmptyMap)>>, flds,
                         [i \in 1..Len(flds) |-> PriorValue(flds[i].type.kind)])

SpecStruct == InitStruct /\ [][Next]_vars

\* the place of the field in the source text
TextPos(f) == f.name[2]

\* the places of the fields that have been written
WrittenPlaces == {TextPos(fields[i]) : i \in written}

\* the places of the fields that fail
FailingPlaces(bs) == {i \in 1..Len(bs) : bs[i] \in FailingBehaviours}

\* the places of the loadable fields before place p
OkBefore(bs, p) == {i \in 1..Len(bs) : i < p /\ bs[i] = "ok"}

\* every field not written holds the value it had before the call, every
\* field written the value 7
ValuesKept ==
    \A i \in 1..Len(fields) :
        obj[i] = IF i \in written THEN 7 ELSE PriorValue(fields[i].type.kind)

\* C24: fields are written in the order of the source text, nested structs
\* where they stand; Load returns at the first field that fails, with a
\* FieldError naming it, the loadable fields before it written and all
\* others as they were; without a failing field Load returns nil with every
\* loadable field written.
C24_FailFast ==
    given.mode = "struct" =>
        /\ \A p \in WrittenPlaces : OkBefore(given.e, p) \subseteq WrittenPlaces
        /\ ValuesKept
        /\ (pc = "done" /\ FailingPlaces(given.e) # {}) =>
               /\ err.kind = "FieldError"
               /\ err.Field = <<"F", Min(FailingPlaces(given.e))>>
               /\ WrittenPlaces = OkBefore(given.e, Min(FailingPlaces(given.e)))
        /\ (pc = "done" /\ FailingPlaces(given.e) = {}) =>
               /\ err = NoErr
               /\ WrittenPlaces = OkBefore(given.e, Len(given.e) + 1)

\* struct{ F1; N struct{ F2; F3 } } with F2 failing: F1 written, F3 not
C24_Witness ==
    /\ given.mode = "struct"
    /\ pc = "done"
    /\ given.e = <<"ok", "fetch", "ok">>
    /\ Len(given.tree) = 2
    /\ given.tree[2].type.kind = "struct"
    /\ err.Field = <<"F", 2>>
    /\ WrittenPlaces = {1}
    /\ obj = <<7, 5, 5>>

\* C27: a field without env tag is never written: in every state of a Load
\* call it holds the value it had before the call.
C27_UntaggedKept ==
    given.mode = "struct" =>
        \A i \in 1..Len(fields) :
            given.e[TextPos(fields[i])] = "untagged"
                => i \notin written /\ obj[i] = PriorValue(fields[i].type.kind)

\* struct{ F1 untagged; F2 `env:"K"`; F3 untagged } was loaded: F2 = 7 and
\* F1 and F3 as before
C27_Witness ==
    /\ given.mode = "struct"
    /\ pc = "done"
    /\ given.e = <<"untagged", "ok", "untagged">>
    /\ err = NoErr
    /\ written = {2}
    /\ obj = <<5, 7, 5>>

(***************************************************************************)
(* Lists with elements that do not convert                                 *)
(***************************************************************************)
ListModes == {"split-default", "split-env", "plain-default", "plain-env"}

\* the delimiter the running revision splits the raw string on
DelimInForce == IF impl = "env3" THEN last.tag.SplitOn ELSE Pipe

\* Load returned because the list field could not be coerced
ListSetFailed ==
    /\ given.mode \in ListModes
    /\ pc = "done"
    /\ err.kind = "FieldError"
    /\ err.stage = "set"

\* the 0-based index of the first element of the raw string that does not
\* convert
FirstFailingIndex == Min(Failing(given.kind, Split(last.raw, DelimInForce))) - 1

\* C25 as claimed: when elements of the raw string fail to convert, the
\* error returned carries the smallest failing element index.
C25_FailingIndex == ListSetFailed => err.index = FirstFailingIndex

\* In the strings.Split revision the error carries the smallest failing
\* element index; in both revisions its message is that of the first failing
\* element and nothing is stored.
C25_SplitRevision ==
    ListSetFailed =>
        /\ impl = "env1" => err.index = FirstFailingIndex
        /\ err.msg = "strconv.Atoi"
        /\ written = {}

(***************************************************************************)
(* A fallback map and an env-file in one call                              *)
(***************************************************************************)
\* the maps the caller passes to WithFallbackValues
CallerMaps == PartialMaps({K, <<"M">>}, {<<"9">>, <<"1">>})

\* Load(&s, o1, o2) with a string field tagged K, where o1 and o2 are
\* WithFallbackValues(m) and WithFile(required, "a.env") in one of the two
\* orders, and K in the environment or not
InitSources ==
    \E im \in Impls, content \in FileContents, required \in BOOLEAN, m \in CallerMaps,
       order \in {"fallback-first", "file-first"}, env \in PartialMaps({K}, {<<"7">>}) :
        InitFrom([mode |-> "sources", c |-> <<>>, e |-> m, kind |-> "string", key |-> order],
                 im, env, [n \in {EnvFile} |-> content],
                 IF order = "fallback-first"
                 THEN <<WithFallbackValues(m), WithFile(required, <<EnvFile>>)>>
                 ELSE <<WithFile(required, <<EnvFile>>), WithFallbackValues(m)>>,
                 <<Field("F", K, Scalar("string"))>>)

SpecSources == InitSources /\ [][Next]_vars

\* Load has returned, K was in the caller's map and in the file that was
\* read, and not in the environment
BothFallbacks ==
    /\ given.mode = "sources"
    /\ pc = "done"
    /\ K \notin DOMAIN environ
    /\ K \in DOMAIN given.e
    /\ files[EnvFile].readable
    /\ K \in DOMAIN files[EnvFile].values

\* C26 as claimed: with the key in the caller's map and in the file and not
\* in the environment, the field is loaded with the value of the caller's
\* map, in whichever order the two options are passed.
C26_FallbackOverFile == BothFallbacks => err = NoErr /\ obj[1] = given.e[K]

\* C26: with the key in the caller's map and in the file and not in the
\* environment, the field is loaded with the value of the option passed
\* later: the caller's map when WithFallbackValues follows WithFile, the
\* file when WithFile follows WithFallbackValues.
C26_LaterOptionWins ==
    BothFallbacks =>
        /\ err = NoErr
        /\ obj[1] = IF given.key = "file-first" THEN given.e[K] ELSE files[EnvFile].values[K]

\* Load(&s, WithFallbackValues({K: 9}), WithFile("a.env")) with K=1 in a.env
\* loaded "1"
C26_Witness ==
    /\ BothFallbacks
    /\ given.key = "fallback-first"
    /\ given.e[K] = <<"9">>
    /\ files[EnvFile].values[K] = <<"1">>
    /\ obj[1] = <<"1">>

(***************************************************************************)
(* The maps of the caller and of the configuration                         *)
(***************************************************************************)
\* the position of WithFallbackValues among the options of the call
FallbackPlace == IF given.key = "fallback-first" THEN 1 ELSE 2

\* C28: the map passed to WithFallbackValues is at every moment of the Load
\* call as the caller made it, its entries are in the configuration's map
\* once the option has run, and no step taken after the options have been
\* applied changes the configuration's map.
C28_MapsUntouched ==
    /\ [](given.mode = "sources" =>
            /\ args[FallbackPlace] = given.e
            /\ Len(options) <= 2 - FallbackPlace
                  => \A k \in DOMAIN given.e :
                        k \in DOMAIN config.Values /\
                        (given.key = "file-first" => config.Values[k] = given.e[k]))
    /\ [][pc # "options" => config' = config]_vars

\* Load(&s, WithFile("a.env"), WithFallbackValues({M: 9})) with K=1 in a.env
\* has returned: the caller's map is still {M: 9} and the configuration's
\* map holds K and M
C28_Witness ==
    /\ given.mode = "sources"
    /\ given.key = "file-first"
    /\ pc = "done"
    /\ err = NoErr
    /\ given.e = [k \in {<<"M">>} |-> <<"9">>]
    /\ args[2] = given.e
    /\ config.Values = [k \in {K, <<"M">>} |-> IF k = K THEN <<"1">> ELSE <<"9">>]
    /\ obj[1] = <<"1">>

(***************************************************************************)
(* parser.Parse step by step                                               *)
(***************************************************************************)
MaxTokens == 4

\* the tokens a stream is made of
Tokens == {K, Comma, Equals, Open, Close, kSplit, kDefault, kOptional}

\* the loop goes on with the cursor at ci
Going(ci, tag) == [pc |-> "loop", currentIndex |-> ci, tag |-> tag, msg |-> ""]

\* Parse returns MinienvTag{} and an error, the cursor left at ci
Failed(ci, msg) == [pc |-> "failed", currentIndex |-> ci, tag |-> ZeroTag, msg |-> msg]

\* one iteration of Parse's loop in which "," leaves the cursor where it is
ParseIteration_CommaStays(tokens, ci, tag) ==
    LET token == currentToken(tokens, ci)
        sp    == parseSplitOption(tokens, ci)
        df    == parseDefaultOption(tokens, ci)
    IN  IF ci = 0 THEN Going(1, [tag EXCEPT !.LookupName = token])
        ELSE CASE token = kOptional -> Going(ci + 1, [tag EXCEPT !.Optional = TRUE])
               [] token = kSplit    -> IF sp.ok
                                       THEN Going(sp.ci + 1, [tag EXCEPT !.SplitOn = sp.val])
                                       ELSE Failed(sp.ci, sp.msg)
               [] token = kDefault  -> IF df.ok
                                       THEN Going(df.ci + 1, [tag EXCEPT !.Default = df.val])
                                       ELSE Failed(df.ci, df.msg)
               [] token = Comma     -> Going(ci, tag)
               [] OTHER             -> Failed(ci, "invalid token in tag")

\* one iteration of Parse's loop, entered with the cursor ci < len(tokens):
\* the first token is the lookup name; an option is handled by its parser,
\* which leaves the cursor on the option's last token, and the cursor is
\* then moved to the next token; "," is skipped; any other token is an error
ParseIteration(tokens, ci, tag) ==
    LET token == currentToken(tokens, ci)
        sp    == parseSplitOption(tokens, ci)
        df    == parseDefaultOption(tokens, ci)
    IN  IF ci = 0 THEN Going(1, [tag EXCEPT !.LookupName = token])
        ELSE CASE token = kOptional -> Going(ci + 1, [tag EXCEPT !.Optional = TRUE])
               [] token = kSplit    -> IF sp.ok
                                       THEN Going(sp.ci + 1, [tag EXCEPT !.SplitOn = sp.val])
                                       ELSE Failed(sp.ci, sp.msg)
               [] token = kDefault  -> IF df.ok
                                       THEN Going(df.ci + 1, [tag EXCEPT !.Default = df.val])
                                       ELSE Failed(df.ci, df.msg)
               [] token = Comma     -> Going(ci + 1, tag)
               [] OTHER             -> Failed(ci, "invalid token in tag")

\* newParser(tokens) for every stream of up to MaxTokens tokens
InitParse ==
    /\ \E ts \in SeqsFromZero(Tokens, MaxTokens) :
          parser = [tokens |-> ts, currentIndex |-> 0, tag |-> ZeroTag, pc |-> "loop", msg |-> ""]
    /\ given = NoList
    /\ impl = "env3"
    /\ environ = EmptyMap
    /\ files = Disk(EmptyMap)
    /\ options = <<>>
    /\ args = <<>>
    /\ config = [Prefix |-> <<>>, Values |-> EmptyMap]
    /\ fields = <<>>
    /\ obj = <<>>
    /\ written = {}
    /\ idx = 1
    /\ pc = "done"
    /\ err = NoErr
    /\ last = NoLast

\* the body of "for p.currentIndex < len(p.tokens)"
ParseLoop ==
    /\ parser.pc = "loop"
    /\ parser.currentIndex < Len(parser.tokens)
    /\ LET it == ParseIteration(parser.tokens, parser.currentIndex, parser.tag)
       IN  parser' = [parser EXCEPT !.pc = it.pc, !.currentIndex = it.currentIndex,
                                    !.tag = it.tag, !.msg = it.msg]
    /\ UNCHANGED loadVars

\* the loop condition fails: return tag, nil
ParseReturn ==
    /\ parser.pc = "loop"
    /\ parser.currentIndex >= Len(parser.tokens)
    /\ parser' = [parser EXCEPT !.pc = "returned"]
    /\ UNCHANGED loadVars

ParseNext == ParseLoop \/ ParseReturn

\* Parse is sequential code: an enabled step is taken
SpecParse == InitParse /\ [][ParseNext]_vars /\ WF_vars(ParseNext)

\* C29: the cursor stays within 0..len(tokens) and never decreases; an
\* iteration that does not return an error moves it forward by at least one
\* token; and Parse comes to an end, with the result of parser.Parse.
C29_CursorAdvances ==
    /\ [](parser.pc # "idle" => parser.currentIndex \in 0..Len(parser.tokens))
    /\ [][/\ parser'.currentIndex >= parser.currentIndex
          /\ parser'.pc = "loop" => parser'.currentIndex > parser.currentIndex]_vars
    /\ <>(parser.pc \in {"returned", "failed"})
    /\ [](parser.pc = "returned" => ParseFrom(parser.tokens, 0, ZeroTag) = TagOk(parser.tag))
    /\ [](parser.pc = "failed" =>
             /\ ~ParseFrom(parser.tokens, 0, ZeroTag).ok
             /\ ParseFrom(parser.tokens, 0, ZeroTag).msg = parser.msg)

\* Parse of the tokens K split = , has returned with the cursor at the end
C29_Witness ==
    /\ parser.pc = "returned"
    /\ parser.tokens = <<K, kSplit, Equals, Comma>>
    /\ parser.currentIndex = 4
    /\ parser.tag.SplitOn = Comma

(***************************************************************************)
(* The default option in the parsers of parse.go                           *)
(***************************************************************************)
\* the outcome of an option parser: it returns a value, returns an error, or
\* panics with "index out of range" on p.tokens[p.currentIndex]
Outcome(how, ci, val, msg) == [pc |-> how, currentIndex |-> ci, val |-> val, msg |-> msg]

InvalidDefault(ci) == Outcome("failed", ci, <<>>, "invalid default tag")

OutOfRange(ci) == Outcome("panicked", ci, <<>>, "index out of range")

\* the loop "for p.tokens[p.currentIndex] != "]"" of both parsers, entered
\* with the cursor ci and the value so far: the condition indexes the tokens
\* without a test, the body tests isEOF after it has moved the cursor
RECURSIVE BracketLoop(_, _, _)
BracketLoop(tokens, ci, value) ==
    IF ci >= Len(tokens) THEN OutOfRange(ci)
    ELSE IF tokens[ci + 1] = Close THEN Outcome("returned", ci + 1, value, "")
    ELSE IF ci + 1 >= Len(tokens) THEN InvalidDefault(ci + 1)
    ELSE BracketLoop(tokens, ci + 1, value \o tokens[ci + 1])

\* "default=" and the value, as tagParser.parseDefault returns it
Sprintf(r) ==
    IF r.pc = "returned" THEN [r EXCEPT !.val = kDefault \o Equals \o r.val] ELSE r

\* tagParser.parseDefault, entered with the cursor ci on the "default" token;
\* the brackets are part of the value
parseDefault(tokens, ci) ==
    IF ci + 1 >= Len(tokens) \/ tokens[ci + 2] # Equals THEN InvalidDefault(ci + 1)
    ELSE IF ci + 2 >= Len(tokens) THEN InvalidDefault(ci + 2)
    ELSE IF tokens[ci + 3] = Open
    THEN LET r == BracketLoop(tokens, ci + 3, Open)
         IN  Sprintf(IF r.pc = "returned" THEN [r EXCEPT !.val = r.val \o Close] ELSE r)
    ELSE Sprintf(Outcome("returned", ci + 3, tokens[ci + 3], ""))

\* parser.parseDefaultOption of parse.go, entered with the cursor ci on the
\* "default" token; "," is no value and the brackets are left out
parseDefaultOptionOfParseGo(tokens, ci) ==
    IF ci + 1 >= Len(tokens) \/ tokens[ci + 2] # Equals THEN InvalidDefault(ci + 1)
    ELSE IF ci + 2 >= Len(tokens) THEN InvalidDefault(ci + 2)
    ELSE IF tokens[ci + 3] = Comma THEN InvalidDefault(ci + 2)
    ELSE IF tokens[ci + 3] = Open THEN BracketLoop(tokens, ci + 3, <<>>)
    ELSE Outcome("returned", ci + 3, tokens[ci + 3], "")

\* one of the two parsers stands on a "default" token of a stream of up to
\* MaxTokens tokens
InitDefaultOption ==
    /\ \E ts \in SeqsFromZero(Tokens, MaxTokens), fn \in {"parseDefaultOption", "parseDefault"} :
          \E i \in 1..Len(ts) :
              /\ ts[i] = kDefault
              /\ parser = [tokens |-> ts, currentIndex |-> i - 1, tag |-> ZeroTag,
                           pc |-> fn, msg |-> ""]
    /\ given = [NoList EXCEPT !.key = parser.currentIndex]
    /\ impl = "env3"
    /\ environ = EmptyMap
    /\ files = Disk(EmptyMap)
    /\ options = <<>>
    /\ args = <<>>
    /\ config = [Prefix |-> <<>>, Values |-> EmptyMap]
    /\ fields = <<>>
    /\ obj = <<>>
    /\ written = {}
    /\ idx = 1
    /\ pc = "done"
    /\ err = NoErr
    /\ last = NoLast

\* the call of the option parser, with the value it returns kept in tag.Default
CallDefault(r) ==
    /\ parser' = [parser EXCEPT !.pc = r.pc, !.currentIndex = r.currentIndex,
                                !.tag = [parser.tag EXCEPT !.Default = r.val],
                                !.msg = r.msg]
    /\ UNCHANGED loadVars

CallParseDefaultOption ==
    /\ parser.pc = "parseDefaultOption"
    /\ CallDefault(parseDefaultOptionOfParseGo(parser.tokens, parser.currentIndex))

CallParseDefault ==
    /\ parser.pc = "parseDefault"
    /\ CallDefault(parseDefault(parser.tokens, parser.currentIndex))

DefaultOptionNext == CallParseDefaultOption \/ CallParseDefault

SpecDefaultOption == InitDefaultOption /\ [][DefaultOptionNext]_vars

\* the option parser was called
DefaultOptionCalled == parser.pc \in {"returned", "failed", "panicked"}

\* the stream ends with the "[" that opens the default's value
EndsAfterOpen ==
    /\ Len(parser.tokens) = given.key + 3
    /\ parser.tokens[given.key + 2] = Equals
    /\ parser.tokens[given.key + 3] = Open

\* C30 as claimed: the option parsers of parse.go never read a token at an
\* index >= len(tokens): for every stream they return a value or the error
\* "invalid default tag".
C30_NoReadPastEnd ==
    DefaultOptionCalled =>
        /\ parser.pc # "panicked"
        /\ parser.pc = "failed" => parser.msg = "invalid default tag"

\* Both parsers read past the end exactly when the stream ends with the "["
\* after "default="; on every other stream they return a value with the
\* cursor within the tokens, or the error "invalid default tag".
C30_PanicAfterOpen ==
    DefaultOptionCalled =>
        /\ parser.pc = "panicked" <=> EndsAfterOpen
        /\ parser.pc = "panicked" => parser.currentIndex = Len(parser.tokens)
        /\ parser.pc = "failed" => parser.msg = "invalid default tag"
        /\ parser.pc = "returned" => parser.currentIndex \in (given.key + 3)..Len(parser.tokens)

====
